---- MODULE Spec2Model ----
(***************************************************************************)
(* A model of the RansomLook ingestion and reconciliation pipeline:        *)
(*   tools/import_posts_from_api.py  normalize_date, dedupe_and_merge,     *)
(*                                   save_posts, main                      *)
(*   bin/parse.py                    main (the per-parser loop)            *)
(*   ransomlook/parsers/*.py         main (the per-fragment loop)          *)
(*                                                                         *)
(* Python strings are tuples of one-character strings, so that a string    *)
(* can be parsed, trimmed and compared character by character.  Python     *)
(* values are tagged records (PyStr, PyNone, PyList, PyDict).               *)
(***************************************************************************)
EXTENDS Integers, Sequences, FiniteSets, TLC

(***************************************************************************)
(* Characters and Python str comparison.                                   *)
(***************************************************************************)

\* The characters the model's strings use, in code-point order.
CharOrder ==
    << "\t", " ", "+", "-", ".", "0", "1", "2", "3", "4", "5", "6", "7",
       "8", "9", ":", "A", "B", "C", "N", "T", "Z", "[", "]", "e", "g", "j",
       "k", "n", "o", "t", "u", "w", "x", "y", "{", "}" >>

Ord(c) == CHOOSE i \in 1..Len(CharOrder) : CharOrder[i] = c

DigitChars == << "0", "1", "2", "3", "4", "5", "6", "7", "8", "9" >>

IsDigit(c) == \E i \in 1..10 : DigitChars[i] = c

DigitVal(c) == (CHOOSE i \in 1..10 : DigitChars[i] = c) - 1

\* str.isspace() on the characters of the model
IsSpace(c) == c \in {" ", "\t", "\n"}

\* Python's str < str: lexicographic by code point, a proper prefix is smaller.
RECURSIVE StrLess(_, _)
StrLess(a, b) ==
    IF b = << >> THEN FALSE
    ELSE IF a = << >> THEN TRUE
    ELSE IF Head(a) = Head(b) THEN StrLess(Tail(a), Tail(b))
    ELSE Ord(Head(a)) < Ord(Head(b))

StrLeq(a, b) == a = b \/ StrLess(a, b)

\* str.strip(): leading and trailing whitespace removed
RECURSIVE LStrip(_)
LStrip(s) == IF s # << >> /\ IsSpace(Head(s)) THEN LStrip(Tail(s)) ELSE s

RECURSIVE RStrip(_)
RStrip(s) ==
    IF s # << >> /\ IsSpace(s[Len(s)]) THEN RStrip(SubSeq(s, 1, Len(s) - 1)) ELSE s

Strip(s) == RStrip(LStrip(s))

(***************************************************************************)
(* Python values.                                                          *)
(***************************************************************************)

PyNone == [ty |-> "NoneType"]

PyStr(s) == [ty |-> "str", s |-> s]

PyList(l) == [ty |-> "list", l |-> l]

\* a dict is a function from its keys (TLA+ strings) to Python values
PyDict(d) == [ty |-> "dict", d |-> d]

IsDict(v) == v.ty = "dict"

\* bool(v)
Truthy(v) ==
    CASE v.ty = "NoneType" -> FALSE
      [] v.ty = "str" -> v.s # << >>
      [] v.ty = "list" -> v.l # << >>
      [] v.ty = "dict" -> DOMAIN v.d # {}

\* hash(v) raises TypeError for a list or a dict
Hashable(v) == v.ty \in {"NoneType", "str"}

\* dict.get(key, default) on the dict's function d
Get(d, key, default) == IF key \in DOMAIN d THEN d[key] ELSE default

\* str(v), as a tuple of characters
StrOf(v) ==
    CASE v.ty = "str" -> v.s
      [] v.ty = "NoneType" -> << "N", "o", "n", "e" >>
      [] v.ty = "list" -> << "[", "]" >>
      [] v.ty = "dict" -> << "{", "}" >>

(***************************************************************************)
(* normalize_date (tools/import_posts_from_api.py).                        *)
(*                                                                         *)
(* datetime.strptime compiles a format into a regular expression:          *)
(*   %Y \d\d\d\d   %m 1[0-2]|0[1-9]|[1-9]   %d 3[0-1]|[1-2]\d|0[1-9]|[1-9]|*)
(*   " "[1-9]   %H 2[0-3]|[0-1]\d|\d   %M [0-5]\d|\d   %S 6[0-1]|[0-5]\d|\d*)
(*   %f [0-9]{1,6}; a blank of the format matches \s+, a letter matches    *)
(*   either case, and the whole string must be consumed.  Every field is   *)
(*   followed by a non-digit or the end, so a field is the run of digits   *)
(*   at its place, of an allowed length and value: the string is cut into  *)
(*   tokens and the tokens are matched.  The datetime constructor then     *)
(*   rejects a day the month does not have and a second above 59.          *)
(* datetime.fromisoformat is modelled on the grammar every Python 3.7+     *)
(*   accepts: YYYY-MM-DD[*HH[:MM[:SS[.fff[fff]]]][(+|-)HH:MM]], * being   *)
(*   one character that is not a digit.                                    *)
(***************************************************************************)

\* s[i], or "" past the end
At(s, i) == IF i >= 1 /\ i <= Len(s) THEN s[i] ELSE ""

\* the number of consecutive digits of s from position i
RECURSIVE DigitRun(_, _)
DigitRun(s, i) == IF IsDigit(At(s, i)) THEN 1 + DigitRun(s, i + 1) ELSE 0

\* the number of consecutive whitespace characters of s from position i
RECURSIVE SpaceRun(_, _)
SpaceRun(s, i) == IF IsSpace(At(s, i)) THEN 1 + SpaceRun(s, i + 1) ELSE 0

\* int(s[i .. i+n-1])
RECURSIVE IntAt(_, _, _)
IntAt(s, i, n) ==
    IF n = 0 THEN 0 ELSE 10 * IntAt(s, i, n - 1) + DigitVal(s[i + n - 1])

\* s cut into tokens from position i: a run of digits [k |-> "num", n |-> its
\* length, v |-> its value], a run of whitespace [k |-> "ws", n |-> its
\* length, v |-> 0 when it starts with a blank], any other character [k |-> c]
RECURSIVE Tokenize(_, _)
TokenAt(s, i, n) ==
    << [k |-> IF IsDigit(s[i]) THEN "num" ELSE IF IsSpace(s[i]) THEN "ws" ELSE s[i],
        n |-> n,
        v |-> IF IsDigit(s[i]) THEN IntAt(s, i, n) ELSE IF s[i] = " " THEN 0 ELSE 1] >>
        \o Tokenize(s, i + n)

Tokenize(s, i) ==
    IF i > Len(s) THEN << >>
    ELSE TokenAt(s, i, IF IsDigit(s[i]) THEN DigitRun(s, i)
                       ELSE IF IsSpace(s[i]) THEN SpaceRun(s, i) ELSE 1)

IsNum(tok, lens) == tok.k = "num" /\ tok.n \in lens

RECURSIVE Pow10(_)
Pow10(n) == IF n = 0 THEN 1 ELSE 10 * Pow10(n - 1)

\* the microseconds of a fraction token: its digits right-padded to 6
Micro(tok) == tok.v * Pow10(6 - tok.n)

IsLeap(y) == (y % 4 = 0 /\ y % 100 # 0) \/ y % 400 = 0

DaysInMonth(y, m) ==
    IF m = 2 THEN (IF IsLeap(y) THEN 29 ELSE 28)
    ELSE IF m \in {4, 6, 9, 11} THEN 30 ELSE 31

NoDate == [ok |-> FALSE]

\* tzinfo: None, or a fixed UTC offset in minutes
Naive == [aware |-> FALSE, min |-> 0]

Aware(minutes) == [aware |-> TRUE, min |-> minutes]

\* datetime(Y, m, d, H, M, S, us, tzinfo): ValueError outside the ranges
MkDate(Y, m, d, H, M, S, us, tz) ==
    IF /\ Y >= 1 /\ m \in 1..12 /\ d >= 1 /\ d <= DaysInMonth(Y, m)
       /\ H \in 0..23 /\ M \in 0..59 /\ S \in 0..59
    THEN [ok |-> TRUE, Y |-> Y, m |-> m, d |-> d, H |-> H, M |-> M, S |-> S,
          us |-> us, tz |-> tz]
    ELSE NoDate

\* the " [1-9]" form of %d: one blank before a one-digit day is part of the day
DayBlankFolded(tk) ==
    IF /\ Len(tk) >= 6 /\ tk[4].k = "-"
       /\ tk[5].k = "ws" /\ tk[5].n = 1 /\ tk[5].v = 0
       /\ IsNum(tk[6], {1}) /\ tk[6].v >= 1
    THEN SubSeq(tk, 1, 4) \o SubSeq(tk, 6, Len(tk))
    ELSE tk

\* the tokens of "%Y-%m-%d<sep>%H:%M:%S[.%f]" matched against the pattern
StrptimeTokens(tk, sep, frac) ==
    IF /\ Len(tk) = (IF frac THEN 13 ELSE 11)
       /\ IsNum(tk[1], {4}) /\ tk[2].k = "-"
       /\ IsNum(tk[3], 1..2) /\ tk[3].v >= 1 /\ tk[4].k = "-"
       /\ IsNum(tk[5], 1..2) /\ tk[5].v >= 1
       /\ tk[6].k \in (IF sep = " " THEN {"ws"} ELSE {"T", "t"})
       /\ IsNum(tk[7], 1..2) /\ tk[8].k = ":"
       /\ IsNum(tk[9], 1..2) /\ tk[10].k = ":"
       /\ IsNum(tk[11], 1..2)
       /\ (frac => tk[12].k = "." /\ IsNum(tk[13], 1..6))
    THEN MkDate(tk[1].v, tk[3].v, tk[5].v, tk[7].v, tk[9].v, tk[11].v,
                IF frac THEN Micro(tk[13]) ELSE 0, Naive)
    ELSE NoDate

\* datetime.strptime(s, "%Y-%m-%d<sep>%H:%M:%S[.%f]"); sep is " " or "T"
Strptime(s, sep, frac) ==
    StrptimeTokens(DayBlankFolded(Tokenize(s, 1)), sep, frac)

\* the tokens of an ISO string end in a UTC offset (+|-)HH:MM
HasOffset(tk) ==
    /\ Len(tk) >= 11
    /\ tk[Len(tk) - 3].k \in {"+", "-"} /\ IsNum(tk[Len(tk) - 2], {2})
    /\ tk[Len(tk) - 1].k = ":" /\ IsNum(tk[Len(tk)], {2})
    /\ tk[Len(tk) - 2].v <= 23 /\ tk[Len(tk)].v <= 59

OffsetOf(tk) ==
    Aware((IF tk[Len(tk) - 3].k = "-" THEN -1 ELSE 1)
            * (60 * tk[Len(tk) - 2].v + tk[Len(tk)].v))

\* the tokens of YYYY-MM-DD[*HH[:MM[:SS[.fff[fff]]]]] with the tzinfo tz
IsoTokens(tk, tz) ==
    IF /\ Len(tk) \in {5, 7, 9, 11, 13}
       /\ IsNum(tk[1], {4}) /\ tk[2].k = "-" /\ IsNum(tk[3], {2})
       /\ tk[4].k = "-" /\ IsNum(tk[5], {2})
       /\ (Len(tk) >= 7 => tk[6].k # "num" /\ tk[6].n = 1 /\ IsNum(tk[7], {2}))
       /\ (Len(tk) >= 9 => tk[8].k = ":" /\ IsNum(tk[9], {2}))
       /\ (Len(tk) >= 11 => tk[10].k = ":" /\ IsNum(tk[11], {2}))
       /\ (Len(tk) >= 13 => tk[12].k = "." /\ IsNum(tk[13], {3, 6}))
    THEN MkDate(tk[1].v, tk[3].v, tk[5].v,
                IF Len(tk) >= 7 THEN tk[7].v ELSE 0,
                IF Len(tk) >= 9 THEN tk[9].v ELSE 0,
                IF Len(tk) >= 11 THEN tk[11].v ELSE 0,
                IF Len(tk) >= 13 THEN Micro(tk[13]) ELSE 0, tz)
    ELSE NoDate

IsoWithOffset(tk) ==
    IF HasOffset(tk) THEN IsoTokens(SubSeq(tk, 1, Len(tk) - 4), OffsetOf(tk))
    ELSE IsoTokens(tk, Naive)

\* datetime.fromisoformat(s)
FromIsoFormat(s) == IsoWithOffset(Tokenize(s, 1))

\* n as w decimal digits, zero-padded
RECURSIVE Pad(_, _)
Pad(n, w) ==
    IF w = 0 THEN << >> ELSE Append(Pad(n \div 10, w - 1), DigitChars[(n % 10) + 1])

\* the date and time of day of dt.isoformat(sep=" ")
IsoBody(dt, withMicro) ==
    Pad(dt.Y, 4) \o << "-" >> \o Pad(dt.m, 2) \o << "-" >> \o Pad(dt.d, 2)
        \o << " " >> \o Pad(dt.H, 2) \o << ":" >> \o Pad(dt.M, 2)
        \o << ":" >> \o Pad(dt.S, 2)
        \o (IF withMicro THEN << "." >> \o Pad(dt.us, 6) ELSE << >>)

\* the UTC offset isoformat appends for an aware datetime
IsoZone(tz) ==
    IF ~tz.aware THEN << >>
    ELSE LET a == IF tz.min < 0 THEN -tz.min ELSE tz.min
         IN  << (IF tz.min < 0 THEN "-" ELSE "+") >> \o Pad(a \div 60, 2)
                 \o << ":" >> \o Pad(a % 60, 2)

\* the time of day moved to UTC, the offset still appended
IsoFormatMovedToUtc(dt, withMicro) ==
    IsoBody([dt EXCEPT !.H = (dt.H + 48 - (dt.tz.min \div 60)) % 24], withMicro)
        \o IsoZone(dt.tz)

\* dt.isoformat(sep=" ", timespec="microseconds" | "seconds")
IsoFormat(dt, withMicro) == IsoBody(dt, withMicro) \o IsoZone(dt.tz)

\* the first of the four patterns that parses (the loop of lines 51-56), then
\* fromisoformat (lines 57-61)
Parsed(s, p1, p2, p3, p4) ==
    IF p1.ok THEN p1
    ELSE IF p2.ok THEN p2
    ELSE IF p3.ok THEN p3
    ELSE IF p4.ok THEN p4
    ELSE FromIsoFormat(s)

\* a string that does not parse is dropped
FormattedOrBlank(date_str, dt) ==
    IF ~dt.ok THEN << >>
    ELSE IF dt.us # 0 THEN IsoFormat(dt, TRUE)
    ELSE IsoFormat(dt, FALSE)

\* lines 61-64
Formatted(date_str, dt) ==
    IF ~dt.ok THEN date_str
    ELSE IF dt.us # 0 THEN IsoFormat(dt, TRUE)
    ELSE IsoFormat(dt, FALSE)

normalize_date(date_str) ==
    Formatted(date_str,
              Parsed(date_str, Strptime(date_str, " ", TRUE),
                     Strptime(date_str, " ", FALSE),
                     Strptime(date_str, "T", TRUE),
                     Strptime(date_str, "T", FALSE)))

(***************************************************************************)
(* The canonical store (Redis db 2) and dedupe_and_merge.                  *)
(*                                                                         *)
(* The store maps a group name (a Python str) to the list of the group's   *)
(* posts; a post is a dict, here a function from its keys to Python        *)
(* values.  json.dumps followed by json.loads gives back str, None, list   *)
(* and dict values as they were, so the stored value is the list itself.   *)
(***************************************************************************)

\* d[key] = value
Put(d, key, value) ==
    [k \in DOMAIN d \cup {key} |-> IF k = key THEN value ELSE d[k]]

EmptyStr == PyStr(<< >>)

\* load_local_posts: every key of the store with its decoded value
load_local_posts(store) == store

\* an existing post rebuilt from its title and timestamp alone
RenormalizedDropsFields(post) ==
    [post_title |-> Get(post, "post_title", PyNone),
     discovered |->
        PyStr(normalize_date(StrOf(Get(post, "discovered", EmptyStr))))]

\* line 89: post["discovered"] = normalize_date(str(post.get("discovered", "")))

Renormalized(post) ==
    Put(post, "discovered",
        PyStr(normalize_date(StrOf(Get(post, "discovered", EmptyStr)))))

\* lines 86-90: grouped after the loop over the existing collections; a group
\* whose list is empty gets no entry (the defaultdict is never touched for it)
ExistingGrouped(existing) ==
    [g \in {k \in DOMAIN existing : existing[k] # << >>} |->
        [i \in 1..Len(existing[g]) |-> Renormalized(existing[g][i])]]

\* the groups of grouped in insertion order, keys being the order of
\* existing.items()
RECURSIVE ExistingOrder(_, _)
ExistingOrder(existing, keys) ==
    IF keys = << >> THEN << >>
    ELSE IF existing[Head(keys)] # << >>
         THEN << Head(keys) >> \o ExistingOrder(existing, Tail(keys))
         ELSE ExistingOrder(existing, Tail(keys))

\* lines 96-103
NewPost(post) ==
    [post_title |-> Get(post, "post_title", EmptyStr),
     discovered |->
        PyStr(normalize_date(StrOf(Get(post, "discovered", EmptyStr)))),
     description |->
        IF Truthy(Get(post, "description", PyNone))
        THEN Get(post, "description", PyNone) ELSE EmptyStr,
     link |-> Get(post, "link", PyNone),
     magnet |-> Get(post, "magnet", PyNone),
     screen |-> Get(post, "screen", PyNone)]

\* line 106: {p.get("post_title") for p in grouped[group]}
TitlesOf(posts) == {Get(posts[i], "post_title", PyNone) : i \in 1..Len(posts)}

\* grouped[group] of the defaultdict
GroupedAt(grouped, g) == IF g \in DOMAIN grouped THEN grouped[g] ELSE << >>

\* lines 107-108: is the new post skipped as a duplicate
\* a merge that never takes a record for a duplicate
IsDuplicateNever(posts, title) == FALSE

IsDuplicate(posts, title) == title \in TitlesOf(posts)

Raised == [raised |-> TRUE]

\* the first index of posts whose title is title
IndexOfTitle(posts, title) ==
    CHOOSE i \in 1..Len(posts) :
        /\ Get(posts[i], "post_title", PyNone) = title
        /\ \A j \in 1..(i - 1) : Get(posts[j], "post_title", PyNone) # title

\* a merge that lets a later report of a title overwrite its timestamp
OnDuplicateRefreshesDiscovered(acc, g, new_post) ==
    [acc EXCEPT !.grouped[g][IndexOfTitle(acc.grouped[g], new_post.post_title)] =
                    Put(@, "discovered", new_post.discovered)]

\* a merge in which the last record of a title replaces the stored post
OnDuplicateLastWins(acc, g, new_post) ==
    [acc EXCEPT !.grouped[g][IndexOfTitle(acc.grouped[g], new_post.post_title)] =
                    new_post]

\* line 108: continue; the record is dropped and grouped is left as it is
OnDuplicate(acc, g, new_post) == acc

\* one iteration of the loop of lines 92-109 on acc = [raised, grouped, order]
MergeOne(acc, post) ==
    IF acc.raised THEN acc
    ELSE IF ~IsDict(post) THEN Raised           \* post.get: AttributeError
    ELSE LET group == Get(post.d, "group_name", PyNone)
             new_post == NewPost(post.d)
         IN  IF ~Truthy(group) THEN acc
             ELSE IF ~Truthy(new_post.post_title) THEN acc
             ELSE IF ~Hashable(group) THEN Raised       \* grouped[group]
             ELSE IF \E p \in TitlesOf(GroupedAt(acc.grouped, group.s)) :
                        ~Hashable(p)
                  THEN Raised                   \* the set comprehension
             ELSE IF ~Hashable(new_post.post_title) THEN Raised   \* in titles
             ELSE IF IsDuplicate(GroupedAt(acc.grouped, group.s),
                                 new_post.post_title)
                  THEN OnDuplicate(acc, group.s, new_post)
             ELSE [raised |-> FALSE,
                   grouped |-> Put(acc.grouped, group.s,
                                   Append(GroupedAt(acc.grouped, group.s),
                                          new_post)),
                   order |-> IF group.s \in DOMAIN acc.grouped THEN acc.order
                             ELSE Append(acc.order, group.s)]

RECURSIVE MergeAll(_, _)
MergeAll(acc, incoming) ==
    IF incoming = << >> THEN acc
    ELSE MergeAll(MergeOne(acc, Head(incoming)), Tail(incoming))

\* the sort key of line 112: p.get("discovered", "")
SortKey(post) == Get(post, "discovered", EmptyStr).s

\* x inserted before the elements whose key equals its own
InsertBeforeEquals(sorted, x) ==
    LET n == Cardinality({i \in 1..Len(sorted) :
                            StrLess(SortKey(sorted[i]), SortKey(x))})
    IN  SubSeq(sorted, 1, n) \o << x >> \o SubSeq(sorted, n + 1, Len(sorted))

\* x inserted behind every element of the sorted list whose key is <= its own
InsertStable(sorted, x) ==
    LET n == Cardinality({i \in 1..Len(sorted) :
                            StrLeq(SortKey(sorted[i]), SortKey(x))})
    IN  SubSeq(sorted, 1, n) \o << x >> \o SubSeq(sorted, n + 1, Len(sorted))

RECURSIVE SortFrom(_, _)
SortFrom(sorted, rest) ==
    IF rest = << >> THEN sorted
    ELSE SortFrom(InsertStable(sorted, Head(rest)), Tail(rest))

\* sorted(posts, key=lambda p: p.get("discovered", "")): stable, ascending
\* a merge that leaves the working collection in insertion order
SortedByDiscoveredSkipped(posts) == posts

SortedByDiscovered(posts) == SortFrom(<< >>, posts)

\* dedupe_and_merge(existing, incoming); keys is the order of existing.items()
dedupe_and_merge(existing, keys, incoming) ==
    LET merged == MergeAll([raised |-> FALSE,
                            grouped |-> ExistingGrouped(existing),
                            order |-> ExistingOrder(existing, keys)],
                           incoming)
    IN  IF merged.raised THEN Raised
        ELSE [raised |-> FALSE,
              grouped |-> [g \in DOMAIN merged.grouped |->
                              SortedByDiscovered(merged.grouped[g])],
              order |-> merged.order]

\* one red.set(group, json.dumps(posts)) of save_posts
RedSet(store, group, posts) == Put(store, group, posts)

\* save_posts(red, data): a set for every group of data, in data's order
RECURSIVE save_posts(_, _, _)
save_posts(store, grouped, order) ==
    IF order = << >> THEN store
    ELSE save_posts(RedSet(store, Head(order), grouped[Head(order)]),
                    grouped, Tail(order))

(***************************************************************************)
(* The inputs of the model: group names, titles, timestamps, stores the    *)
(* pipeline is started on and the records the remote feed returns.         *)
(***************************************************************************)

\* group names
GX == << "g", "x" >>

GY == << "g", "y" >>

\* post titles
TitleA == << "A" >>

TitleB == << "B" >>

TitleC == << "C" >>

\* discovered strings: canonical, with the T separator, unparseable
D20240101 ==
    << "2", "0", "2", "4", "-", "0", "1", "-", "0", "1", " ", "0", "0",
       ":", "0", "0", ":", "0", "0" >>

D20240102 ==
    << "2", "0", "2", "4", "-", "0", "1", "-", "0", "2", " ", "0", "0",
       ":", "0", "0", ":", "0", "0" >>

D20240102T ==
    << "2", "0", "2", "4", "-", "0", "1", "-", "0", "2", "T", "0", "0",
       ":", "0", "0", ":", "0", "0" >>

D20240103 ==
    << "2", "0", "2", "4", "-", "0", "1", "-", "0", "3", " ", "0", "0",
       ":", "0", "0", ":", "0", "0" >>

D20231231T ==
    << "2", "0", "2", "3", "-", "1", "2", "-", "3", "1", "T", "0", "0",
       ":", "0", "0", ":", "0", "0" >>

D20231231 ==
    << "2", "0", "2", "3", "-", "1", "2", "-", "3", "1", " ", "0", "0",
       ":", "0", "0", ":", "0", "0" >>

Unknown == << "u", "n", "k", "n", "o", "w", "n" >>

Junk == << "j", "u", "n", "k" >>

Desc == << "x" >>

\* a stored post
Post(title, discovered) ==
    [post_title |-> PyStr(title), discovered |-> PyStr(discovered),
     description |-> EmptyStr, link |-> PyNone, magnet |-> PyNone,
     screen |-> PyNone]

\* a record of the remote feed (GET posts/period), as resp.json() returns it
Record(group, title, discovered) ==
    PyDict([group_name |-> PyStr(group), post_title |-> PyStr(title),
            discovered |-> PyStr(discovered), description |-> PyStr(Desc),
            link |-> PyNone])

\* the store before the first run: empty; one group with one post; and a
\* store written before the normalization policy (a T separator, newest
\* first), each collection with unique titles
InitStores ==
    { << >>,
      [g \in {GX} |-> << Post(TitleA, D20240101) >>],
      [g \in {GX, GY} |->
          IF g = GX THEN << Post(TitleA, D20240101) >>
          ELSE << Post(TitleB, D20240102T), Post(TitleA, D20240101) >>] }

\* what the feed may return: well-formed records (two of them for the same
\* title of the same group), a record without a title, a record whose
\* group_name is null, and an element that is not an object
RemoteRecords ==
    { Record(GX, TitleA, D20240103),
      Record(GX, TitleB, D20240102),
      Record(GX, TitleB, D20231231T),
      Record(GY, TitleC, Unknown),
      PyDict([group_name |-> PyStr(GX), discovered |-> PyStr(D20240101)]),
      PyDict([group_name |-> PyNone, post_title |-> PyStr(TitleA)]),
      PyStr(Junk) }

\* the longest batch the feed returns in the model
MaxBatch == 2

Batches == UNION {[1..n -> RemoteRecords] : n \in 0..MaxBatch}

\* the orders in which red.keys() may list the keys of a store
KeyOrders(store) ==
    {s \in [1..Cardinality(DOMAIN store) -> DOMAIN store] :
        \A i, j \in DOMAIN s : i # j => s[i] # s[j]}

(***************************************************************************)
(* State.                                                                  *)
(***************************************************************************)

VARIABLES
    red,            \* the canonical store (Redis db 2): group -> list of posts
    pc,             \* where main() of import_posts_from_api is
    remote_posts,   \* what fetch_remote_posts returned
    crashed,        \* main() ended with an uncaught exception
    prev,           \* history: the store when the run loaded it
    rerun,          \* history: the feed returned the batch of the last run
    resp,           \* the answer to the request of fetch_remote_posts, where
                    \* the exchange is part of the model
    created,        \* history: <<group, title>> -> the discovered value the
                    \* post was first stored with
    runs,           \* two import processes running at once: process -> its
                    \* position and local variables
    parse,          \* main() of bin/parse.py: its position and what it did
    source,         \* the files of the source/ directory, in listdir order
    extracted,      \* what the main() of a parser module returned
    norm,           \* normalize_date applied to a string, once and again
    rf,             \* main() of bin/rf.py: its position and what it did
    cli,            \* the command line of parse.py or scrape.py and the
                    \* groups the run works on
    tg,             \* import_telegram_groups: the store of channels (Redis
                    \* db 5) and what the call did
    groupdb,        \* import_new_groups: the store of groups (Redis db 0)
                    \* and the add_group calls made
    poller,         \* poll_recent of slack_bot.py: its position, last_seen
                    \* and the messages posted
    bot             \* the command handlers of slack_bot.py: threads, the
                    \* priority file, the shell commands run

importVars == << pc, remote_posts, crashed, prev, rerun, resp, created >>

\* the variables of normalize_date, rf.py and the command line
tools == << norm, rf, cli >>

\* the variables of the telegram and group imports and of the Slack bot
bots == << tg, groupdb, poller, bot >>

vars == << red, importVars, runs, parse, source, extracted, tools, bots >>

\* the variables an import run leaves alone
notImport == << runs, parse, source, extracted, tools, bots >>

\* the two processes before they start (and when they are not modelled)
Procs == {"p1", "p2"}

NoRuns ==
    [p \in Procs |->
        [pc |-> "start", remote_posts |-> << >>, merged |-> << >>,
         tosave |-> << >>, added |-> {}, crashed |-> FALSE]]

\* parse.py before it starts on the parsers of todo
NoParse(todo) ==
    [pc |-> "loop", all |-> todo, todo |-> todo, done |-> << >>,
     reported |-> {}, aborted |-> FALSE, appended |-> << >>]

\* no parser module has been run
NoExtract == [parser |-> << >>, raised |-> FALSE, list_div |-> << >>]

\* normalize_date, rf.py and the command line when they are not modelled
NoNorm == [pc |-> "idle"]

NoRf == [pc |-> "idle", escaped |-> FALSE]

NoCli == [pc |-> "idle", tool |-> "none"]

\* the telegram and group imports and the Slack bot when they are not
\* modelled
NoTg == [pc |-> "idle", dry_run |-> FALSE]

NoGroupdb == [pc |-> "idle"]

NoPoller == [pc |-> "idle"]

NoBot == [pc |-> "idle"]

BotsIdle ==
    /\ tg = NoTg
    /\ groupdb = NoGroupdb
    /\ poller = NoPoller
    /\ bot = NoBot

ToolsIdle ==
    /\ norm = NoNorm
    /\ rf = NoRf
    /\ cli = NoCli

\* no request made
NoResponse == [kind |-> "none"]

ImportIdle ==
    /\ pc = "start"
    /\ remote_posts = << >>
    /\ crashed = FALSE
    /\ prev = << >>
    /\ rerun = FALSE
    /\ resp = NoResponse
    /\ created = << >>

\* the <<group, title>> pairs of a store
PairsOf(store) ==
    UNION {{<< g, title >> : title \in TitlesOf(store[g])} : g \in DOMAIN store}

\* the post of that title
PostOf(store, g, title) == store[g][IndexOfTitle(store[g], title)]

\* the history of the posts of store that created does not know yet
CreatedWith(old, store, legacy) ==
    [k \in DOMAIN old \cup PairsOf(store) |->
        IF k \in DOMAIN old THEN old[k]
        ELSE [discovered |-> Get(PostOf(store, k[1], k[2]), "discovered", PyNone),
              legacy |-> legacy]]

(***************************************************************************)
(* main() of tools/import_posts_from_api.py, run again and again.          *)
(***************************************************************************)

Init ==
    /\ red \in InitStores
    /\ pc = "start"
    /\ remote_posts = << >>
    /\ crashed = FALSE
    /\ prev = red
    /\ rerun = FALSE
    /\ resp = NoResponse
    /\ created = CreatedWith(<< >>, red, TRUE)
    /\ runs = NoRuns
    /\ parse = NoParse(<< >>)
    /\ source = << >>
    /\ extracted = NoExtract
    /\ ToolsIdle
    /\ BotsIdle

\* line 124: remote_posts = fetch_remote_posts(...)
FetchRemotePosts ==
    /\ pc = "start"
    /\ remote_posts' \in Batches
    /\ pc' = "fetched"
    /\ UNCHANGED << red, crashed, prev, rerun, created, resp, notImport >>

\* lines 126-130: load_local_posts, dedupe_and_merge, save_posts.  An
\* exception of dedupe_and_merge ends the process before save_posts.
MergeAndSave ==
    /\ pc = "fetched"
    /\ \E keys \in KeyOrders(red) :
         LET local_posts == load_local_posts(red)
             merged == dedupe_and_merge(local_posts, keys, remote_posts)
         IN  IF merged.raised
             THEN /\ crashed' = TRUE
                  /\ UNCHANGED << red, created >>
             ELSE /\ crashed' = FALSE
                  /\ red' = save_posts(red, merged.grouped, merged.order)
                  /\ created' = CreatedWith(created, red', FALSE)
    /\ prev' = red
    /\ pc' = "exit"
    /\ UNCHANGED << remote_posts, rerun, resp, notImport >>

\* the next scheduled run
NextRun ==
    /\ pc = "exit"
    /\ pc' = "start"
    /\ remote_posts' = << >>
    /\ crashed' = FALSE
    /\ prev' = red
    /\ rerun' = FALSE
    /\ UNCHANGED << red, created, resp, notImport >>

\* the next run, the feed returning the same batch once more
NextRunSameBatch ==
    /\ pc = "exit"
    /\ ~crashed
    /\ ~rerun
    /\ pc' = "fetched"
    /\ prev' = red
    /\ rerun' = TRUE
    /\ UNCHANGED << red, remote_posts, crashed, created, resp, notImport >>

Next == FetchRemotePosts \/ MergeAndSave \/ NextRun \/ NextRunSameBatch

Spec == Init /\ [][Next]_vars

(***************************************************************************)
(* Properties of the import run.                                           *)
(***************************************************************************)

\* a record of the batch that names a group and a title
WellFormed(rec) ==
    /\ IsDict(rec)
    /\ Get(rec.d, "group_name", PyNone).ty = "str"
    /\ Get(rec.d, "post_title", PyNone).ty = "str"
    /\ Truthy(Get(rec.d, "group_name", PyNone))
    /\ Truthy(Get(rec.d, "post_title", PyNone))

GroupOf(rec) == rec.d.group_name.s

TitleOf(rec) == rec.d.post_title

HasTitle(store, g, title) == g \in DOMAIN store /\ title \in TitlesOf(store[g])

\* p and q agree on every key but discovered
SameButDiscovered(p, q) ==
    /\ DOMAIN p = DOMAIN q
    /\ \A k \in DOMAIN p \ {"discovered"} : p[k] = q[k]

\* the run has ended and save_posts has committed the merged collections
Committed == pc = "exit" /\ ~crashed

OrderInvariant ==
    Committed =>
        \A g \in DOMAIN red :
            \A i \in 1..(Len(red[g]) - 1) :
                StrLeq(red[g][i].discovered.s, red[g][i + 1].discovered.s)

\* a group the batch does not name was stored out of order and is now sorted
OrderInvariantWitness ==
    /\ Committed
    /\ GY \in DOMAIN prev
    /\ StrLess(prev[GY][2].discovered.s, prev[GY][1].discovered.s)
    /\ red[GY] # prev[GY]
    /\ remote_posts # << >>
    /\ \A i \in 1..Len(remote_posts) :
         WellFormed(remote_posts[i]) /\ GroupOf(remote_posts[i]) = GX

\* C3: merging the same batch a second time changes nothing: no post is
\* added, no field and no position changes.
Idempotence == (pc = "exit" /\ rerun) => (~crashed /\ red = prev)

\* the second merge of a batch whose first merge stored one of its records
IdempotenceWitness ==
    /\ pc = "exit" /\ rerun /\ ~crashed
    /\ \E i \in 1..Len(remote_posts) :
         /\ WellFormed(remote_posts[i])
         /\ << GroupOf(remote_posts[i]), TitleOf(remote_posts[i]) >>
                \in DOMAIN created
         /\ ~created[<< GroupOf(remote_posts[i]),
                        TitleOf(remote_posts[i]) >>].legacy
         /\ PostOf(red, GroupOf(remote_posts[i]), TitleOf(remote_posts[i])).description
                = remote_posts[i].d.description

\* the example of the spec: existing [A], incoming [A, B]
ExampleStore == [g \in {GX} |-> << Post(TitleA, D20240101) >>]

ExampleBatch == << Record(GX, TitleA, D20240103), Record(GX, TitleB, D20240102) >>

ExampleResult ==
    [g \in {GX} |->
        << Post(TitleA, D20240101),
           [post_title |-> PyStr(TitleB), discovered |-> PyStr(D20240102),
            description |-> PyStr(Desc), link |-> PyNone, magnet |-> PyNone,
            screen |-> PyNone] >>]

\* C4: every post of the existing collection is still in the group's
\* collection after the run, its other fields as they were and its discovered
\* the same timestamp; existing [A] merged with [A, B] gives [A, B].
MergePreservesHistory ==
    pc = "exit" =>
        /\ \A g \in DOMAIN prev :
             /\ g \in DOMAIN red
             /\ \A i \in 1..Len(prev[g]) :
                  \E j \in 1..Len(red[g]) :
                      /\ SameButDiscovered(prev[g][i], red[g][j])
                      /\ \/ red[g][j].discovered = prev[g][i].discovered
                         \/ red[g][j].discovered.s
                                = normalize_date(prev[g][i].discovered.s)
        /\ (prev = ExampleStore /\ remote_posts = ExampleBatch)
                => red = ExampleResult

MergePreservesHistoryWitness ==
    /\ Committed
    /\ prev = ExampleStore
    /\ remote_posts = ExampleBatch
    /\ Len(red[GX]) = 2

\* C5: a stored post keeps the discovered value it was created with, whatever
\* later batches report for its title (a post that was in the store before
\* the first run keeps its timestamp, rewritten in the canonical format).
NeverRevised ==
    \A k \in DOMAIN created :
        /\ HasTitle(red, k[1], k[2])
        /\ \/ PostOf(red, k[1], k[2]).discovered = created[k].discovered
           \/ /\ created[k].legacy
              /\ PostOf(red, k[1], k[2]).discovered.s
                    = normalize_date(created[k].discovered.s)

\* a post created by one merge, and a later batch that reports another
\* discovered value and another description for its title
NeverRevisedWitness ==
    /\ Committed
    /\ \E i \in 1..Len(remote_posts) :
         /\ WellFormed(remote_posts[i])
         /\ HasTitle(prev, GroupOf(remote_posts[i]), TitleOf(remote_posts[i]))
         /\ ~created[<< GroupOf(remote_posts[i]),
                        TitleOf(remote_posts[i]) >>].legacy
         /\ normalize_date(remote_posts[i].d.discovered.s)
                # PostOf(prev, GroupOf(remote_posts[i]),
                         TitleOf(remote_posts[i])).discovered.s

\* the first well-formed record of the batch with the group and title of rec
FirstOf(batch, rec) ==
    batch[CHOOSE i \in 1..Len(batch) :
            /\ WellFormed(batch[i])
            /\ GroupOf(batch[i]) = GroupOf(rec)
            /\ TitleOf(batch[i]) = TitleOf(rec)
            /\ \A j \in 1..(i - 1) :
                 ~(/\ WellFormed(batch[j])
                   /\ GroupOf(batch[j]) = GroupOf(rec)
                   /\ TitleOf(batch[j]) = TitleOf(rec))]

\* the stored post is the one made from record rec
MadeFrom(post, rec) ==
    /\ post.post_title = rec.d.post_title
    /\ post.discovered.s = normalize_date(rec.d.discovered.s)
    /\ post.description = rec.d.description
    /\ post.link = rec.d.link

\* C6: of the records of a batch with the same group and title only the first
\* is appended, the later ones are dropped without an error; a record whose
\* title the existing collection holds is dropped.
FirstSeenWins ==
    pc = "exit" =>
        /\ (\A i \in 1..Len(remote_posts) : IsDict(remote_posts[i])) => ~crashed
        /\ ~crashed =>
             \A i \in 1..Len(remote_posts) :
                 WellFormed(remote_posts[i]) =>
                     /\ Cardinality({j \in 1..Len(red[GroupOf(remote_posts[i])]) :
                            red[GroupOf(remote_posts[i])][j].post_title
                                = TitleOf(remote_posts[i])}) = 1
                     /\ IF HasTitle(prev, GroupOf(remote_posts[i]),
                                    TitleOf(remote_posts[i]))
                        THEN SameButDiscovered(
                                PostOf(prev, GroupOf(remote_posts[i]),
                                       TitleOf(remote_posts[i])),
                                PostOf(red, GroupOf(remote_posts[i]),
                                       TitleOf(remote_posts[i])))
                        ELSE MadeFrom(PostOf(red, GroupOf(remote_posts[i]),
                                             TitleOf(remote_posts[i])),
                                      FirstOf(remote_posts, remote_posts[i]))

\* a batch with two records of one new title that differ in discovered
FirstSeenWinsWitness ==
    /\ Committed
    /\ Len(remote_posts) = 2
    /\ WellFormed(remote_posts[1]) /\ WellFormed(remote_posts[2])
    /\ GroupOf(remote_posts[1]) = GroupOf(remote_posts[2])
    /\ TitleOf(remote_posts[1]) = TitleOf(remote_posts[2])
    /\ remote_posts[1].d.discovered # remote_posts[2].d.discovered
    /\ ~HasTitle(prev, GroupOf(remote_posts[1]), TitleOf(remote_posts[1]))

\* C10: dedupe_and_merge raises nothing, whatever the batch holds, and every
\* well-formed record of the batch is merged.
NoFailurePath ==
    pc = "exit" =>
        /\ ~crashed
        /\ \A i \in 1..Len(remote_posts) :
             WellFormed(remote_posts[i]) =>
                 HasTitle(red, GroupOf(remote_posts[i]), TitleOf(remote_posts[i]))

(***************************************************************************)
(* Two import processes at once.  main() takes no lock: each process loads *)
(* the store, merges its own batch and writes the groups back one red.set  *)
(* at a time, whatever the other process does in between.                  *)
(***************************************************************************)

\* the longest batch a process fetches in this specification
MaxConcBatch == 1

ConcBatches == {b \in Batches : Len(b) <= MaxConcBatch}

notConc == << importVars, parse, source, extracted, tools, bots >>

InitConc ==
    /\ red \in InitStores
    /\ ImportIdle
    /\ runs = NoRuns
    /\ parse = NoParse(<< >>)
    /\ source = << >>
    /\ extracted = NoExtract
    /\ ToolsIdle
    /\ BotsIdle

\* line 124 in process p
ConcFetch(p) ==
    /\ runs[p].pc = "start"
    /\ \E batch \in ConcBatches :
         runs' = [runs EXCEPT ![p].remote_posts = batch, ![p].pc = "fetched"]
    /\ UNCHANGED << red, notConc >>

\* what process p holds after lines 127-129 on the store it loaded
Merging(run, store, merged) ==
    IF merged.raised
    THEN [run EXCEPT !.crashed = TRUE, !.pc = "exit"]
    ELSE [run EXCEPT !.merged = merged.grouped,
                     !.tosave = merged.order,
                     !.added = PairsOf(merged.grouped) \ PairsOf(store),
                     !.pc = IF merged.order = << >> THEN "exit" ELSE "saving"]

\* lines 126-129 in process p: load_local_posts and dedupe_and_merge
ConcLoadMerge(p) ==
    /\ runs[p].pc = "fetched"
    /\ \E keys \in KeyOrders(red) :
         runs' = [runs EXCEPT ![p] =
                     Merging(runs[p], red,
                             dedupe_and_merge(load_local_posts(red), keys,
                                              runs[p].remote_posts))]
    /\ UNCHANGED << red, notConc >>

\* line 119 in process p: one red.set of the loop of save_posts
ConcSaveOne(p) ==
    /\ runs[p].pc = "saving"
    /\ red' = RedSet(red, Head(runs[p].tosave), runs[p].merged[Head(runs[p].tosave)])
    /\ runs' = [runs EXCEPT ![p].tosave = Tail(runs[p].tosave),
                            ![p].pc = IF Len(runs[p].tosave) = 1
                                      THEN "exit" ELSE "saving"]
    /\ UNCHANGED notConc

NextConc ==
    \E p \in Procs : ConcFetch(p) \/ ConcLoadMerge(p) \/ ConcSaveOne(p)

SpecConc == InitConc /\ [][NextConc]_vars

\* C7: when two import runs execute concurrently, every post added by either
\* run is in the store once both have committed (no lost update).
NoLostUpdate ==
    (\A p \in Procs : runs[p].pc = "exit") =>
        \A p \in Procs :
            \A k \in runs[p].added : HasTitle(red, k[1], k[2])

(***************************************************************************)
(* The parser modules ransomlook/parsers/blacklock.py and flocker.py.  A   *)
(* file of source/ is given by its name and by what BeautifulSoup finds in *)
(* it: the text/babel scripts (blacklock) and the h2 entry titles          *)
(* (flocker).                                                              *)
(***************************************************************************)

Blacklock == << "b", "l", "a", "c", "k", "l", "o", "c", "k" >>

Flocker == << "f", "l", "o", "c", "k", "e", "r" >>

\* str.startswith
StartsWith(s, prefix) ==
    /\ Len(s) >= Len(prefix)
    /\ SubSeq(s, 1, Len(prefix)) = prefix

\* list_div and whether an exception is on its way out
Returned(list_div) == [raised |-> FALSE, list_div |-> list_div]

Faulted(acc) == [acc EXCEPT !.raised = TRUE]

\* entry.get(key, '')
StrField(entry, key) == Get(entry.d, key, EmptyStr)

\* the dict appended to list_div
Candidate(title, description, link, filename) ==
    [title |-> title, description |-> description, link |-> link,
     slug |-> filename]

\* blacklock.py lines 34-44: .strip() of a value that is no str raises
\* AttributeError, and so does .get of an entry that is no dict
BlacklockEntry(acc, entry, filename) ==
    IF ~IsDict(entry) THEN Faulted(acc)
    ELSE IF \/ StrField(entry, "fullname").ty # "str"
            \/ StrField(entry, "desc").ty # "str"
            \/ StrField(entry, "url1").ty # "str"
         THEN Faulted(acc)
    ELSE IF Strip(StrField(entry, "fullname").s) = << >> THEN acc
    ELSE [acc EXCEPT !.list_div =
             Append(@, Candidate(Strip(StrField(entry, "fullname").s),
                                 Strip(StrField(entry, "desc").s),
                                 Strip(StrField(entry, "url1").s),
                                 filename))]

\* blacklock.py line 33: for entry in victims
RECURSIVE BlacklockVictims(_, _, _)
BlacklockVictims(acc, victims, filename) ==
    IF victims = << >> \/ acc.raised THEN acc
    ELSE BlacklockVictims(BlacklockEntry(acc, Head(victims), filename),
                          Tail(victims), filename)

\* what the regular expression and json.loads make of a script
NoMatch == [k |-> "nomatch"]

InvalidJson == [k |-> "invalid"]

Projects(list) == [k |-> "list", v |-> list]

\* blacklock.py lines 8-13: [] without a match, json.loads raises
\* JSONDecodeError on a match that is no JSON
extract_projects_json(script) ==
    IF script.projects.k = "nomatch" THEN [raised |-> FALSE, victims |-> << >>]
    ELSE IF script.projects.k = "invalid" THEN [raised |-> TRUE, victims |-> << >>]
    ELSE [raised |-> FALSE, victims |-> script.projects.v]

\* blacklock.py lines 32-33 on what extract_projects_json gave
BlacklockProjects(acc, extraction, filename) ==
    IF extraction.raised THEN Faulted(acc)
    ELSE BlacklockVictims(acc, extraction.victims, filename)

\* blacklock.py lines 30-45: the first script with 'const projects =' only
RECURSIVE BlacklockScripts(_, _, _)
BlacklockScripts(acc, script_tags, filename) ==
    IF script_tags = << >> THEN acc
    ELSE IF Head(script_tags).marker
         THEN BlacklockProjects(acc, extract_projects_json(Head(script_tags)),
                                filename)
         ELSE BlacklockScripts(acc, Tail(script_tags), filename)

\* blacklock.py lines 22-45: the body of the try for one file of source/
BlacklockFile(list_div, file) ==
    IF ~StartsWith(file.name, Blacklock \o << "-" >>) THEN Returned(list_div)
    ELSE IF ~file.readable THEN Faulted(Returned(list_div))
    ELSE BlacklockScripts(Returned(list_div), file.scripts, file.name)

BlacklockCaughtNothing(result) == result

\* blacklock.py lines 46-48: except Exception: print, pass
BlacklockCaught(result) == [result EXCEPT !.raised = FALSE]

\* blacklock.py lines 20-51: for filename in os.listdir('source')
RECURSIVE BlacklockFrom(_, _)
BlacklockNext(result, files) ==
    IF result.raised THEN result ELSE BlacklockFrom(result.list_div, files)

BlacklockFrom(list_div, files) ==
    IF files = << >> THEN Returned(list_div)
    ELSE BlacklockNext(BlacklockCaught(BlacklockFile(list_div, Head(files))),
                       Tail(files))

blacklock_main(files) == BlacklockFrom(<< >>, files)

\* flocker.py lines 19-35: link_tag['href'] of an <a> without href raises
\* KeyError
FlockerEntry(acc, entry, filename) ==
    IF entry.a.ty # "NoneType" /\ "href" \notin DOMAIN entry.a.d
    THEN Faulted(acc)
    ELSE IF Strip(entry.text) = << >> THEN acc
    ELSE [acc EXCEPT !.list_div =
             Append(@, Candidate(Strip(entry.text),
                                 IF entry.excerpt.ty = "NoneType" THEN << >>
                                 ELSE Strip(entry.excerpt.s),
                                 IF entry.a.ty = "NoneType" THEN << >>
                                 ELSE entry.a.d.href.s,
                                 filename))]

\* flocker.py line 18: for entry in entries
RECURSIVE FlockerEntries(_, _, _)
FlockerEntries(acc, entries, filename) ==
    IF entries = << >> \/ acc.raised THEN acc
    ELSE FlockerEntries(FlockerEntry(acc, Head(entries), filename),
                        Tail(entries), filename)

\* flocker.py lines 12-37: the body of the try for one file of source/
FlockerFile(list_div, file) ==
    IF ~StartsWith(file.name, Flocker \o << "-" >>) THEN Returned(list_div)
    ELSE IF ~file.readable THEN Faulted(Returned(list_div))
    ELSE FlockerEntries(Returned(list_div), file.entries, file.name)

\* flocker.py lines 38-40: except Exception: print, pass
FlockerCaught(result) == [result EXCEPT !.raised = FALSE]

\* flocker.py lines 10-43: for filename in os.listdir('source')
RECURSIVE FlockerFrom(_, _)
FlockerNext(result, files) ==
    IF result.raised THEN result ELSE FlockerFrom(result.list_div, files)

FlockerFrom(list_div, files) ==
    IF files = << >> THEN Returned(list_div)
    ELSE FlockerNext(FlockerCaught(FlockerFile(list_div, Head(files))),
                     Tail(files))

flocker_main(files) == FlockerFrom(<< >>, files)

\* module.main() of the parser of that name
ParserMain(parser_name, files) ==
    IF parser_name = Blacklock THEN blacklock_main(files)
    ELSE flocker_main(files)

(***************************************************************************)
(* The files of source/ in the model, and a parser module run on them.     *)
(***************************************************************************)

\* a file of source/: <group>-<n>, whether it can be opened and read, its
\* text/babel scripts and its h2 entry titles
Fragment(group, n, readable, scripts, entries) ==
    [name |-> group \o << "-", n >>, readable |-> readable,
     scripts |-> scripts, entries |-> entries]

\* a script: whether its text holds 'const projects =' and what follows
Script(marker, projects) == [marker |-> marker, projects |-> projects]

Url == << "u" >>

\* an entry of the projects array
Victim(fullname) ==
    PyDict([fullname |-> PyStr(fullname), desc |-> PyStr(Desc),
            url1 |-> PyStr(Url)])

\* an h2 entry title: its text, its first <a> and the excerpt div after it
H2(text, a, excerpt) == [text |-> text, a |-> a, excerpt |-> excerpt]

Padded(title) == << " " >> \o title \o << " " >>

Blank == << " ", " " >>

SourceFiles ==
    { Fragment(Blacklock, "1", TRUE,
               << Script(TRUE, Projects(<< Victim(Padded(TitleA)) >>)) >>,
               << >>),
      Fragment(Blacklock, "2", TRUE,
               << Script(TRUE, Projects(<< Victim(TitleB),
                                           PyDict([fullname |-> PyNone]) >>)) >>,
               << >>),
      Fragment(Blacklock, "3", TRUE,
               << Script(FALSE, NoMatch),
                  Script(TRUE, Projects(<< Victim(TitleC), Victim(Blank),
                                           PyDict([desc |-> PyStr(Desc)]) >>)),
                  Script(TRUE, Projects(<< Victim(TitleA) >>)) >>,
               << >>),
      Fragment(Blacklock, "4", TRUE, << Script(TRUE, InvalidJson) >>, << >>),
      Fragment(Flocker, "1", TRUE, << >>,
               << H2(Padded(TitleA), PyDict([href |-> PyStr(Url)]),
                     PyStr(Padded(Desc))) >>),
      Fragment(Flocker, "2", TRUE, << >>,
               << H2(TitleB, PyDict([href |-> PyStr(Url)]), PyNone),
                  H2(TitleC, PyDict(<< >>), PyNone) >>),
      Fragment(Flocker, "3", TRUE, << >>,
               << H2(TitleC, PyNone, PyNone), H2(Blank, PyNone, PyNone) >>),
      Fragment(Flocker, "4", FALSE, << >>, << >>) }

\* the most files source/ holds in the model
MaxFrags == 3

\* os.listdir('source'): distinct files in any order
Sources ==
    {s \in UNION {[1..n -> SourceFiles] : n \in 0..MaxFrags} :
        \A i, j \in DOMAIN s : i # j => s[i] # s[j]}

notExtract == << red, importVars, runs, parse, source, tools, bots >>

InitExtract ==
    /\ red = << >>
    /\ ImportIdle
    /\ runs = NoRuns
    /\ parse = NoParse(<< >>)
    /\ source \in Sources
    /\ extracted = NoExtract
    /\ ToolsIdle
    /\ BotsIdle

\* what the caller of module.main() gets
Extraction(parser_name, result) ==
    [parser |-> parser_name, raised |-> result.raised,
     list_div |-> IF result.raised THEN << >> ELSE result.list_div]

RunBlacklock ==
    /\ extracted = NoExtract
    /\ extracted' = Extraction(Blacklock, blacklock_main(source))
    /\ UNCHANGED notExtract

RunFlocker ==
    /\ extracted = NoExtract
    /\ extracted' = Extraction(Flocker, flocker_main(source))
    /\ UNCHANGED notExtract

NextExtract == RunBlacklock \/ RunFlocker

SpecExtract == InitExtract /\ [][NextExtract]_vars

\* the file is one of the parser's group
FragmentOf(parser_name, file) == StartsWith(file.name, parser_name \o << "-" >>)

\* the parser faults on the file
Faulty(parser_name, file) ==
    IF parser_name = Blacklock THEN BlacklockFile(<< >>, file).raised
    ELSE FlockerFile(<< >>, file).raised

\* the candidates the parser finds in the file
CandidatesOf(parser_name, file) ==
    IF parser_name = Blacklock THEN BlacklockFile(<< >>, file).list_div
    ELSE FlockerFile(<< >>, file).list_div

\* the candidates of list_div that come from the file of that name
FromFragment(list_div, filename) ==
    LET FromIt(candidate) == candidate.slug = filename
    IN  SelectSeq(list_div, FromIt)

\* C9: no exception escapes the extractor, and it returns the candidates of
\* every fragment of the group it did not fault on, whether the faulty
\* fragment came before or after.
FaultIsolation ==
    extracted # NoExtract =>
        /\ ~extracted.raised
        /\ \A i \in 1..Len(source) :
             (/\ FragmentOf(extracted.parser, source[i])
              /\ ~Faulty(extracted.parser, source[i]))
                 => /\ FromFragment(extracted.list_div, source[i].name)
                         = CandidatesOf(extracted.parser, source[i])
                    /\ \A j \in 1..Len(CandidatesOf(extracted.parser, source[i])) :
                         CandidatesOf(extracted.parser, source[i])[j].title
                             \in {TitleA, TitleB, TitleC}

\* three fragments of the group, the second one faulty: the candidates of the
\* first and of the third are returned
FaultIsolationWitness ==
    /\ extracted # NoExtract
    /\ Len(source) = 3
    /\ \A i \in 1..3 : FragmentOf(extracted.parser, source[i])
    /\ Faulty(extracted.parser, source[2])
    /\ ~Faulty(extracted.parser, source[1])
    /\ ~Faulty(extracted.parser, source[3])
    /\ \E i, j \in 1..Len(extracted.list_div) :
         /\ i < j
         /\ extracted.list_div[i].slug = source[1].name
         /\ extracted.list_div[j].slug = source[3].name

(***************************************************************************)
(* main() of bin/parse.py: the loop over the parser modules.  appender     *)
(* (ransomlook.posts) is a call that returns or raises; the calls that     *)
(* returned are logged in parse.appended.                                  *)
(***************************************************************************)

ParserNames == {Blacklock, Flocker}

\* __all__: the parser modules glob found (those of groups_filter if one is
\* given), in glob's order
ParserOrders ==
    {t \in UNION {[1..n -> ParserNames] : n \in 0..Cardinality(ParserNames)} :
        \A i, j \in DOMAIN t : i # j => t[i] # t[j]}

notParse == << red, importVars, runs, source, extracted, tools, bots >>

InitParse ==
    /\ red = << >>
    /\ ImportIdle
    /\ runs = NoRuns
    /\ parse \in {NoParse(t) : t \in ParserOrders}
    /\ source \in Sources
    /\ extracted = NoExtract
    /\ ToolsIdle
    /\ BotsIdle

\* line 47: importlib.import_module raises (the module does not load); the
\* call is outside the try of line 50, so the exception leaves main()
ParseImportFails ==
    /\ parse.pc = "loop"
    /\ parse.todo # << >>
    /\ parse' = [parse EXCEPT !.pc = "exit", !.aborted = TRUE]
    /\ UNCHANGED notParse

\* the entries appender returned for: all of them, none if module.main()
\* raised, those before the entry appender raised on (fault) otherwise
Appended(parser_name, result, fault) ==
    [i \in 1..(IF result.raised THEN 0
               ELSE IF fault = 0 THEN Len(result.list_div)
               ELSE fault - 1) |-> << parser_name, result.list_div[i] >>]

\* lines 50-56 for the parser at the head of todo
AfterParser(p, result, fault) ==
    [p EXCEPT !.todo = Tail(@),
              !.done = Append(@, Head(p.todo)),
              !.reported = IF result.raised \/ fault > 0
                           THEN @ \cup {Head(p.todo)} ELSE @,
              !.appended = @ \o Appended(Head(p.todo), result, fault)]

\* lines 47-56: the module loads, module.main() runs and appender is called
\* on every entry until it raises
ParseGroup ==
    /\ parse.pc = "loop"
    /\ parse.todo # << >>
    /\ \E fault \in 0..Len(ParserMain(Head(parse.todo), source).list_div) :
         parse' = AfterParser(parse,
                              Extraction(Head(parse.todo),
                                         ParserMain(Head(parse.todo), source)),
                              fault)
    /\ UNCHANGED notParse

\* lines 57-63: the loop is over
ParseEnd ==
    /\ parse.pc = "loop"
    /\ parse.todo = << >>
    /\ parse' = [parse EXCEPT !.pc = "exit"]
    /\ UNCHANGED notParse

NextParse == ParseImportFails \/ ParseGroup \/ ParseEnd

SpecParse == InitParse /\ [][NextParse]_vars

\* C8: the parse run never ends early: whatever fault one group raises
\* (loading its extractor, running it, reconciling an entry), every group of
\* the working set is processed.
BatchCompletes ==
    parse.pc = "exit" =>
        /\ ~parse.aborted
        /\ \A i \in 1..Len(parse.all) :
             \E j \in 1..Len(parse.done) : parse.done[j] = parse.all[i]

(***************************************************************************)
(* normalize_date on its own: applied to a string, applied again to its    *)
(* result, and a record carrying the string merged into an empty store.    *)
(***************************************************************************)

\* dates: padded, unpadded, not in the calendar
DateParts ==
    { << "2", "0", "2", "4", "-", "0", "3", "-", "0", "1" >>,
      << "2", "0", "2", "4", "-", "3", "-", "1" >>,
      << "2", "0", "2", "4", "-", "0", "2", "-", "3", "0" >>,
      << "1", "9", "9", "9", "-", "1", "2", "-", "3", "1" >> }

\* what stands between the date and the time of day
SepParts ==
    { << " " >>,
      << "T" >>,
      << "t" >>,
      << " ", " " >>,
      << "x" >> }

\* times of day
TimeParts ==
    { << "1", "2", ":", "0", "0", ":", "0", "0" >>,
      << "1", ":", "2", ":", "3" >>,
      << "2", "3", ":", "5", "9", ":", "5", "9" >> }

\* fractions of a second
FracParts ==
    { << >>,
      << ".", "1", "2", "3", "4", "5", "6" >>,
      << ".", "0", "0", "0", "0", "0", "0" >>,
      << ".", "1", "2", "3" >> }

\* UTC offsets
ZoneParts ==
    { << >>,
      << "+", "0", "2", ":", "0", "0" >>,
      << "-", "0", "5", ":", "3", "0" >> }

\* strings that are no full timestamp, and other spellings of one
OtherStrings ==
    { << >>,
      << "u", "n", "k", "n", "o", "w", "n" >>,
      << "N", "o", "n", "e" >>,
      << "2", "0", "2", "4", "-", "0", "3", "-", "0", "1" >>,
      << "2", "0", "2", "4", "-", "0", "3", "-", "0", "1", " " >>,
      << "2", "0", "2", "4", "-", "0", "3", "-", "0", "1", "T", "1", "2" >>,
      << "2", "0", "2", "4", "-", "0", "3", "-", "0", "1", " ", "1", "2", ":", "0", "0" >>,
      << "2", "0", "2", "4", "-", "0", "3", "-", "0", "1", " ", "1", "2", ":", "0", "0", ":", "0", "0", ".", "5" >>,
      << "2", "0", "2", "4", "-", "0", "3", "-", "0", "1", "T", "1", "2", ":", "0", "0", ":", "0", "0", ".", "5" >>,
      << "2", "0", "2", "4", "-", "0", "3", "-", " ", "1", " ", "1", "2", ":", "0", "0", ":", "0", "0" >>,
      << "2", "0", "2", "4", "-", "0", "3", "-", "0", "1", "\t", "1", "2", ":", "0", "0", ":", "0", "0" >> }

\* the strings normalize_date is applied to
DateStrings ==
    {d \o s \o t \o f \o z :
        d \in DateParts, s \in SepParts, t \in TimeParts, f \in FracParts,
        z \in ZoneParts} \cup OtherStrings

Normalizing(date_str) ==
    [pc |-> "input", date_str |-> date_str, once |-> << >>, twice |-> << >>,
     merged |-> Raised]

notNorm == << red, importVars, runs, parse, source, extracted, rf, cli, bots >>

InitNorm ==
    /\ red = << >>
    /\ ImportIdle
    /\ runs = NoRuns
    /\ parse = NoParse(<< >>)
    /\ source = << >>
    /\ extracted = NoExtract
    /\ rf = NoRf
    /\ cli = NoCli
    /\ BotsIdle
    /\ norm \in {Normalizing(date_str) : date_str \in DateStrings}

\* normalize_date(date_str)
Normalize ==
    /\ norm.pc = "input"
    /\ norm' = [norm EXCEPT !.once = normalize_date(norm.date_str),
                            !.pc = "once"]
    /\ UNCHANGED notNorm

\* normalize_date of what normalize_date returned
NormalizeAgain ==
    /\ norm.pc = "once"
    /\ norm' = [norm EXCEPT !.twice = normalize_date(norm.once),
                            !.pc = "twice"]
    /\ UNCHANGED notNorm

\* dedupe_and_merge of a batch whose one record carries date_str
MergeCarrying ==
    /\ norm.pc = "twice"
    /\ norm' = [norm EXCEPT
                  !.merged = dedupe_and_merge(<< >>, << >>,
                                 << Record(GX, TitleA, norm.date_str) >>),
                  !.pc = "merged"]
    /\ UNCHANGED notNorm

NextNorm == Normalize \/ NormalizeAgain \/ MergeCarrying

SpecNorm == InitNorm /\ [][NextNorm]_vars

\* C11: normalize_date(normalize_date(s)) = normalize_date(s) for every s.
NormalizeIdempotent ==
    norm.pc \in {"twice", "merged"} => norm.twice = norm.once

\* a string normalize_date rewrote, normalized once more
NormalizeIdempotentWitness ==
    /\ norm.pc = "twice"
    /\ norm.once # norm.date_str
    /\ norm.twice = norm.once

\* what the four patterns or fromisoformat make of the string
ParsedOf(date_str) ==
    Parsed(date_str, Strptime(date_str, " ", TRUE), Strptime(date_str, " ", FALSE),
           Strptime(date_str, "T", TRUE), Strptime(date_str, "T", FALSE))

Parses(date_str) == ParsedOf(date_str).ok

\* the post of that title and that discovered string is in the merged group
MergedWith(merged, g, title, discovered) ==
    /\ ~merged.raised
    /\ g \in DOMAIN merged.grouped
    /\ \E i \in 1..Len(merged.grouped[g]) :
         /\ merged.grouped[g][i].post_title = PyStr(title)
         /\ merged.grouped[g][i].discovered = PyStr(discovered)

\* C12: a string that matches none of the four patterns and is no ISO-8601
\* string ("unknown", the empty string) is returned unchanged, nothing is
\* raised, and the record carrying it is merged with the string as it was.
NeverRaises ==
    /\ (norm.pc \in {"once", "twice", "merged"} /\ ~Parses(norm.date_str))
            => norm.once = norm.date_str
    /\ (norm.pc \in {"once", "twice", "merged"}
            /\ norm.date_str \in {Unknown, << >>})
            => norm.once = norm.date_str
    /\ (norm.pc = "merged" /\ ~Parses(norm.date_str))
            => MergedWith(norm.merged, GX, TitleA, norm.date_str)

\* the record whose discovered is "unknown" has been merged
NeverRaisesWitness ==
    /\ norm.pc = "merged"
    /\ norm.date_str = Unknown
    /\ ~Parses(norm.date_str)
    /\ norm.once = Unknown
    /\ MergedWith(norm.merged, GX, TitleA, Unknown)

\* YYYY-MM-DD HH:MM:SS, with .ffffff or without
IsCanonical(s) ==
    /\ Len(s) \in {19, 26}
    /\ \A i \in 1..Len(s) :
         IF i \in {5, 8} THEN s[i] = "-"
         ELSE IF i = 11 THEN s[i] = " "
         ELSE IF i \in {14, 17} THEN s[i] = ":"
         ELSE IF i = 20 THEN s[i] = "."
         ELSE IsDigit(s[i])

\* C13: for every input that parses, normalize_date returns exactly
\* YYYY-MM-DD HH:MM:SS when the microseconds are zero and
\* YYYY-MM-DD HH:MM:SS.ffffff when they are not; "2024-03-01 12:00:00" is
\* returned unchanged and "2024-03-01T12:00:00.123456" becomes
\* "2024-03-01 12:00:00.123456".
CanonicalFormat ==
    (norm.pc \in {"once", "twice", "merged"} /\ Parses(norm.date_str)) =>
        /\ IsCanonical(norm.once)
        /\ Len(norm.once) = 26 <=> ParsedOf(norm.date_str).us # 0

(***************************************************************************)
(* The import run on batches whose titles carry whitespace and whose       *)
(* timestamps tie, with a store write (red.set) that may fail.             *)
(***************************************************************************)

\* stores whose posts tie in discovered, in both orders, and a second group
\* stored newest first
TieStores ==
    { [g \in {GX} |-> << Post(TitleA, D20240101), Post(TitleB, D20240101) >>],
      [g \in {GX} |-> << Post(TitleB, D20240101), Post(TitleA, D20240101) >>],
      [g \in {GX, GY} |->
          IF g = GX THEN << Post(TitleA, D20240101) >>
          ELSE << Post(TitleB, D20240102T), Post(TitleA, D20240101) >>] }

\* records that tie with the stored posts and with each other, and records
\* whose title is padded with blanks or is blank
TextRecords ==
    { Record(GX, TitleC, D20240101),
      Record(GX, Padded(TitleA), D20240101),
      Record(GX, Blank, D20240101),
      Record(GY, TitleC, D20240102),
      Record(GX, TitleB, D20231231) }

TextBatches == UNION {[1..n -> TextRecords] : n \in 0..MaxBatch}

InitCommit ==
    /\ red \in TieStores
    /\ pc = "start"
    /\ remote_posts = << >>
    /\ crashed = FALSE
    /\ prev = red
    /\ rerun = FALSE
    /\ resp = NoResponse
    /\ created = CreatedWith(<< >>, red, TRUE)
    /\ runs = NoRuns
    /\ parse = NoParse(<< >>)
    /\ source = << >>
    /\ extracted = NoExtract
    /\ ToolsIdle
    /\ BotsIdle

\* line 124
FetchTextBatch ==
    /\ pc = "start"
    /\ remote_posts' \in TextBatches
    /\ pc' = "fetched"
    /\ UNCHANGED << red, crashed, prev, rerun, created, resp, notImport >>

\* save_posts when the red.set of the k-th group of data raises: the groups
\* before it are written, the exception leaves save_posts and main()
SavedUntil(store, merged, k) ==
    save_posts(store, merged.grouped, SubSeq(merged.order, 1, k - 1))

WritesOf(merged) == IF merged.raised THEN {} ELSE 1..Len(merged.order)

\* lines 126-130 with a store write that fails
MergeAndSaveWriteFails ==
    /\ pc = "fetched"
    /\ \E keys \in KeyOrders(red) :
         \E k \in WritesOf(dedupe_and_merge(load_local_posts(red), keys,
                                            remote_posts)) :
            red' = SavedUntil(red,
                              dedupe_and_merge(load_local_posts(red), keys,
                                               remote_posts), k)
    /\ created' = CreatedWith(created, red', FALSE)
    /\ crashed' = TRUE
    /\ prev' = red
    /\ pc' = "exit"
    /\ UNCHANGED << remote_posts, rerun, resp, notImport >>

NextCommit == FetchTextBatch \/ MergeAndSave \/ MergeAndSaveWriteFails

SpecCommit == InitCommit /\ [][NextCommit]_vars

\* the posts of group g in a store
PostsOf(store, g) == IF g \in DOMAIN store THEN store[g] ELSE << >>

\* the first record of the batch with that group and title
FirstRecord(batch, g, title) ==
    CHOOSE i \in 1..Len(batch) :
        /\ GroupOf(batch[i]) = g /\ TitleOf(batch[i]) = title
        /\ \A j \in 1..(i - 1) :
             ~(GroupOf(batch[j]) = g /\ TitleOf(batch[j]) = title)

\* when the post of that title was first inserted: its place in the stored
\* collection, or behind it the place of its record in the batch
SeenAt(g, title) ==
    IF title \in TitlesOf(PostsOf(prev, g))
    THEN IndexOfTitle(prev[g], title)
    ELSE Len(PostsOf(prev, g)) + FirstRecord(remote_posts, g, title)

\* C18: two posts of a committed collection with equal discovered stand in
\* the order in which they were first inserted: the existing posts in their
\* stored order, then the added posts in input order.
TieBreaking ==
    Committed =>
        \A g \in DOMAIN red :
            \A i, j \in 1..Len(red[g]) :
                (i < j /\ red[g][i].discovered = red[g][j].discovered)
                    => SeenAt(g, red[g][i].post_title)
                            < SeenAt(g, red[g][j].post_title)

\* two stored posts and two added posts, all with the same discovered
TieBreakingWitness ==
    /\ Committed
    /\ prev = [g \in {GX} |-> << Post(TitleB, D20240101), Post(TitleA, D20240101) >>]
    /\ remote_posts = << Record(GX, TitleC, D20240101),
                         Record(GX, Padded(TitleA), D20240101) >>
    /\ Len(red[GX]) = 4
    /\ red[GX][1].post_title = PyStr(TitleB)
    /\ red[GX][2].post_title = PyStr(TitleA)
    /\ red[GX][3].post_title = PyStr(TitleC)
    /\ red[GX][4].post_title = PyStr(Padded(TitleA))

\* C14: every post a merge adds has a post_title without leading or trailing
\* whitespace, and a record whose title is empty after trimming is discarded.
TitlesCanonical ==
    Committed =>
        \A g \in DOMAIN red :
            \A i \in 1..Len(red[g]) :
                red[g][i].post_title \notin TitlesOf(PostsOf(prev, g))
                    => /\ Strip(red[g][i].post_title.s) = red[g][i].post_title.s
                       /\ red[g][i].post_title.s # << >>

\* the collections the run would have committed had no write failed
Expected(g) ==
    dedupe_and_merge(prev, CHOOSE keys \in KeyOrders(prev) : TRUE,
                     remote_posts).grouped[g]

ExpectedGroups ==
    DOMAIN dedupe_and_merge(prev, CHOOSE keys \in KeyOrders(prev) : TRUE,
                            remote_posts).grouped

\* C16: when the store write of one group fails, only that group's commit is
\* lost: every other group of the run holds its new collection, and every
\* group holds its whole old or its whole new collection.
CommitFailureIsolated ==
    (pc = "exit" /\ crashed) =>
        /\ Cardinality({g \in ExpectedGroups :
                            PostsOf(red, g) # Expected(g)}) <= 1
        /\ \A g \in ExpectedGroups :
             PostsOf(red, g) \in {PostsOf(prev, g), Expected(g)}

(***************************************************************************)
(* The parser modules silentransomgroup.py, medusalocker.py, datavault.py  *)
(* and rebornvc.py.  A file is given by the blocks the parser selects in   *)
(* it (.block_1, article, div.main_block, .card) and by what the parser    *)
(* finds in each block.                                                    *)
(***************************************************************************)

Silentransomgroup ==
    << "s", "i", "l", "e", "n", "t", "r", "a", "n", "s", "o", "m",
       "g", "r", "o", "u", "p" >>

Medusalocker == << "m", "e", "d", "u", "s", "a", "l", "o", "c", "k", "e", "r" >>

Datavault == << "d", "a", "t", "a", "v", "a", "u", "l", "t" >>

Rebornvc == << "r", "e", "b", "o", "r", "n", "v", "c" >>

\* the marker of a title the site has cut
Ellipsis == << ".", ".", "." >>

\* sub in s
Contains(s, sub) ==
    \E i \in 1..(Len(s) - Len(sub) + 1) : SubSeq(s, i, i + Len(sub) - 1) = sub

\* the candidate of a parser that reads no link
CandidateNoLink(title, description, filename) ==
    [title |-> title, description |-> description, slug |-> filename]

\* tag.get_text() of a tag given by its strings: the strings joined
RECURSIVE GetTextRaw(_)
GetTextRaw(strings) ==
    IF strings = << >> THEN << >>
    ELSE Head(strings) \o GetTextRaw(Tail(strings))

\* tag.get_text(strip=True): every string stripped, the empty ones left out,
\* the rest joined
RECURSIVE GetTextStripped(_)
GetTextStripped(strings) ==
    IF strings = << >> THEN << >>
    ELSE Strip(Head(strings)) \o GetTextStripped(Tail(strings))

\* get_text(strip=True) of the tag if there is one, else ''
TextOrEmpty(tag) ==
    IF tag.ty = "NoneType" THEN << >> ELSE GetTextStripped(tag.l)

\* tag.text.strip() of the tag if there is one, else ''
StrippedOrEmpty(tag) == IF tag.ty = "NoneType" THEN << >> ELSE Strip(tag.s)

\* silentransomgroup.py lines 20-43: the td after COMPANY:, the td after
\* COMPANY INFO:, and no candidate for a title that holds "..."
SilentransomgroupBlock(acc, block, filename) ==
    IF TextOrEmpty(block.company) # << >>
       /\ ~Contains(TextOrEmpty(block.company), Ellipsis)
    THEN [acc EXCEPT !.list_div =
             Append(@, CandidateNoLink(TextOrEmpty(block.company),
                                       TextOrEmpty(block.info), filename))]
    ELSE acc

\* silentransomgroup.py line 19: for block in blocks
RECURSIVE SilentransomgroupBlocks(_, _, _)
SilentransomgroupBlocks(acc, blocks, filename) ==
    IF blocks = << >> THEN acc
    ELSE SilentransomgroupBlocks(
             SilentransomgroupBlock(acc, Head(blocks), filename),
             Tail(blocks), filename)

\* silentransomgroup.py lines 13-43: the body of the try for one file
SilentransomgroupFile(list_div, file) ==
    IF ~StartsWith(file.name, Silentransomgroup \o << "-" >>)
    THEN Returned(list_div)
    ELSE IF ~file.readable THEN Faulted(Returned(list_div))
    ELSE SilentransomgroupBlocks(Returned(list_div), file.blocks, file.name)

\* silentransomgroup.py lines 45-46: except Exception: print
SilentransomgroupCaught(result) == [result EXCEPT !.raised = FALSE]

\* silentransomgroup.py lines 11-49
RECURSIVE SilentransomgroupFrom(_, _)
SilentransomgroupNext(result, files) ==
    IF result.raised THEN result
    ELSE SilentransomgroupFrom(result.list_div, files)

SilentransomgroupFrom(list_div, files) ==
    IF files = << >> THEN Returned(list_div)
    ELSE SilentransomgroupNext(
             SilentransomgroupCaught(SilentransomgroupFile(list_div, Head(files))),
             Tail(files))

silentransomgroup_main(files) == SilentransomgroupFrom(<< >>, files)

\* medusalocker.py lines 19-40: link_tag['href'] of an <a> without href
\* raises KeyError, which the except of line 39 swallows: no candidate
MedusalockerArticle(acc, article, filename) ==
    IF article.a.ty # "NoneType" /\ "href" \notin DOMAIN article.a.d THEN acc
    ELSE IF StrippedOrEmpty(article.h2) = << >> THEN acc
    ELSE [acc EXCEPT !.list_div =
             Append(@, Candidate(StrippedOrEmpty(article.h2),
                                 StrippedOrEmpty(article.content),
                                 IF article.a.ty = "NoneType" THEN << >>
                                 ELSE article.a.d.href.s,
                                 filename))]

\* medusalocker.py line 18: for article in articles
RECURSIVE MedusalockerArticles(_, _, _)
MedusalockerArticles(acc, articles, filename) ==
    IF articles = << >> THEN acc
    ELSE MedusalockerArticles(MedusalockerArticle(acc, Head(articles), filename),
                              Tail(articles), filename)

\* medusalocker.py lines 12-42: the body of the try for one file
MedusalockerFile(list_div, file) ==
    IF ~StartsWith(file.name, Medusalocker \o << "-" >>) THEN Returned(list_div)
    ELSE IF ~file.readable THEN Faulted(Returned(list_div))
    ELSE MedusalockerArticles(Returned(list_div), file.blocks, file.name)

\* medusalocker.py lines 43-45: except Exception: print, pass
MedusalockerCaught(result) == [result EXCEPT !.raised = FALSE]

\* medusalocker.py lines 10-48
RECURSIVE MedusalockerFrom(_, _)
MedusalockerNext(result, files) ==
    IF result.raised THEN result ELSE MedusalockerFrom(result.list_div, files)

MedusalockerFrom(list_div, files) ==
    IF files = << >> THEN Returned(list_div)
    ELSE MedusalockerNext(
             MedusalockerCaught(MedusalockerFile(list_div, Head(files))),
             Tail(files))

medusalocker_main(files) == MedusalockerFrom(<< >>, files)

\* datavault.py line 40: the stripped texts of the paragraphs that are not
\* blank, joined by newlines
RECURSIVE JoinedParagraphs(_)
JoinedParagraphs(paragraphs) ==
    IF paragraphs = << >> THEN << >>
    ELSE IF Strip(Head(paragraphs)) = << >> THEN JoinedParagraphs(Tail(paragraphs))
    ELSE IF JoinedParagraphs(Tail(paragraphs)) = << >> THEN Strip(Head(paragraphs))
    ELSE Strip(Head(paragraphs)) \o << "\n" >> \o JoinedParagraphs(Tail(paragraphs))

\* datavault.py lines 32-49
DatavaultVictim(acc, victim, filename) ==
    IF victim.title_div.ty = "NoneType" THEN acc
    ELSE IF Strip(victim.title_div.s) = << >> THEN acc
    ELSE [acc EXCEPT !.list_div =
             Append(@, CandidateNoLink(
                           Strip(victim.title_div.s),
                           IF victim.notes.ty = "NoneType" THEN << >>
                           ELSE JoinedParagraphs(victim.notes.l),
                           filename))]

\* datavault.py line 31: for victim in victims
RECURSIVE DatavaultVictims(_, _, _)
DatavaultVictims(acc, victims, filename) ==
    IF victims = << >> THEN acc
    ELSE DatavaultVictims(DatavaultVictim(acc, Head(victims), filename),
                          Tail(victims), filename)

\* datavault.py lines 21-49 for one file
DatavaultFile(list_div, file) ==
    IF ~StartsWith(file.name, Datavault \o << "-" >>) THEN Returned(list_div)
    ELSE IF ~file.readable THEN Faulted(Returned(list_div))
    ELSE DatavaultVictims(Returned(list_div), file.blocks, file.name)

\* datavault.py lines 50-51: except Exception: print
DatavaultCaught(result) == [result EXCEPT !.raised = FALSE]

\* datavault.py lines 20-54
RECURSIVE DatavaultFrom(_, _)
DatavaultNext(result, files) ==
    IF result.raised THEN result ELSE DatavaultFrom(result.list_div, files)

DatavaultFrom(list_div, files) ==
    IF files = << >> THEN Returned(list_div)
    ELSE DatavaultNext(DatavaultCaught(DatavaultFile(list_div, Head(files))),
                       Tail(files))

datavault_main(files) == DatavaultFrom(<< >>, files)

\* rebornvc.py lines 19-31
RebornvcCard(acc, card, filename) ==
    IF card.company.ty = "NoneType" THEN acc
    ELSE IF TextOrEmpty(card.company) = << >> THEN acc
    ELSE [acc EXCEPT !.list_div =
             Append(@, CandidateNoLink(TextOrEmpty(card.company),
                                       TextOrEmpty(card.details), filename))]

\* rebornvc.py line 18: for card in cards
RECURSIVE RebornvcCards(_, _, _)
RebornvcCards(acc, cards, filename) ==
    IF cards = << >> THEN acc
    ELSE RebornvcCards(RebornvcCard(acc, Head(cards), filename),
                       Tail(cards), filename)

\* rebornvc.py lines 12-31: the body of the try for one file
RebornvcFile(list_div, file) ==
    IF ~StartsWith(file.name, Rebornvc \o << "-" >>) THEN Returned(list_div)
    ELSE IF ~file.readable THEN Faulted(Returned(list_div))
    ELSE RebornvcCards(Returned(list_div), file.blocks, file.name)

\* rebornvc.py lines 32-33: except Exception: print
RebornvcCaught(result) == [result EXCEPT !.raised = FALSE]

\* rebornvc.py lines 10-36
RECURSIVE RebornvcFrom(_, _)
RebornvcNext(result, files) ==
    IF result.raised THEN result ELSE RebornvcFrom(result.list_div, files)

RebornvcFrom(list_div, files) ==
    IF files = << >> THEN Returned(list_div)
    ELSE RebornvcNext(RebornvcCaught(RebornvcFile(list_div, Head(files))),
                      Tail(files))

rebornvc_main(files) == RebornvcFrom(<< >>, files)

(***************************************************************************)
(* The six parser modules run on files whose titles are padded, blank,     *)
(* missing or cut by the site.                                             *)
(***************************************************************************)

\* a file of source/ given by its blocks
Page(group, n, readable, blocks) ==
    [name |-> group \o << "-", n >>, readable |-> readable,
     scripts |-> << >>, entries |-> << >>, blocks |-> blocks]

\* a title the site has cut
AcmeCut ==
    << "A", "c", "m", "e", " ", "C", "o", "r", "p", ".", ".", "." >>

Href == PyDict([href |-> PyStr(Url)])

TitlePages ==
    { Page(Silentransomgroup, "1", TRUE,
           << [company |-> PyList(<< Padded(TitleA) >>),
               info |-> PyList(<< Padded(Desc) >>)],
              [company |-> PyList(<< AcmeCut >>), info |-> PyNone],
              [company |-> PyNone, info |-> PyList(<< Desc >>)],
              [company |-> PyList(<< Blank, << " " >> >>), info |-> PyNone] >>),
      Page(Medusalocker, "1", TRUE,
           << [a |-> Href, h2 |-> PyStr(Padded(TitleB)), content |-> PyStr(Desc)],
              [a |-> Href, h2 |-> PyStr(AcmeCut), content |-> PyNone],
              [a |-> PyDict(<< >>), h2 |-> PyStr(TitleC), content |-> PyNone],
              [a |-> PyNone, h2 |-> PyNone, content |-> PyNone] >>),
      Page(Medusalocker, "2", TRUE,
           << [a |-> PyNone, h2 |-> PyStr(Blank), content |-> PyStr(Desc)],
              [a |-> PyNone, h2 |-> PyStr(TitleA), content |-> PyStr(Blank)] >>),
      Page(Datavault, "1", TRUE,
           << [title_div |-> PyStr(Padded(TitleA)),
               notes |-> PyList(<< Padded(Desc), Blank, Desc >>)],
              [title_div |-> PyNone, notes |-> PyNone],
              [title_div |-> PyStr(Blank), notes |-> PyNone],
              [title_div |-> PyStr(AcmeCut), notes |-> PyNone] >>),
      Page(Datavault, "2", FALSE, << >>),
      Page(Rebornvc, "1", TRUE,
           << [company |-> PyList(<< Padded(TitleA), Padded(TitleB) >>),
               details |-> PyList(<< Desc >>)],
              [company |-> PyNone, details |-> PyNone],
              [company |-> PyList(<< << " " >> >>), details |-> PyNone],
              [company |-> PyList(<< AcmeCut >>), details |-> PyNone] >>) }
        \cup SourceFiles

\* the most files source/ holds in this specification
MaxPages == 2

TitleSources ==
    {s \in UNION {[1..n -> TitlePages] : n \in 0..MaxPages} :
        \A i, j \in DOMAIN s : i # j => s[i] # s[j]}

InitTitles ==
    /\ red = << >>
    /\ ImportIdle
    /\ runs = NoRuns
    /\ parse = NoParse(<< >>)
    /\ source \in TitleSources
    /\ extracted = NoExtract
    /\ ToolsIdle
    /\ BotsIdle

RunSilentransomgroup ==
    /\ extracted = NoExtract
    /\ extracted' = Extraction(Silentransomgroup, silentransomgroup_main(source))
    /\ UNCHANGED notExtract

RunMedusalocker ==
    /\ extracted = NoExtract
    /\ extracted' = Extraction(Medusalocker, medusalocker_main(source))
    /\ UNCHANGED notExtract

RunDatavault ==
    /\ extracted = NoExtract
    /\ extracted' = Extraction(Datavault, datavault_main(source))
    /\ UNCHANGED notExtract

RunRebornvc ==
    /\ extracted = NoExtract
    /\ extracted' = Extraction(Rebornvc, rebornvc_main(source))
    /\ UNCHANGED notExtract

NextTitles ==
    \/ RunSilentransomgroup
    \/ RunMedusalocker
    \/ RunDatavault
    \/ RunRebornvc
    \/ RunBlacklock
    \/ RunFlocker

SpecTitles == InitTitles /\ [][NextTitles]_vars

\* C15: no extractor returns a candidate whose title holds "...".
NoTruncatedTitles ==
    extracted # NoExtract =>
        \A i \in 1..Len(extracted.list_div) :
            ~Contains(extracted.list_div[i].title, Ellipsis)

\* the text of the title element of a block is there and is not blank
HasTitleText(parser_name, block) ==
    IF parser_name \in {Silentransomgroup, Rebornvc}
    THEN /\ block.company.ty # "NoneType"
         /\ \E i \in 1..Len(block.company.l) :
              \E j \in 1..Len(block.company.l[i]) : ~IsSpace(block.company.l[i][j])
    ELSE IF parser_name = Medusalocker
    THEN /\ block.h2.ty # "NoneType"
         /\ \E j \in 1..Len(block.h2.s) : ~IsSpace(block.h2.s[j])
    ELSE /\ block.title_div.ty # "NoneType"
         /\ \E j \in 1..Len(block.title_div.s) : ~IsSpace(block.title_div.s[j])

BlockParsers == {Silentransomgroup, Medusalocker, Datavault, Rebornvc}

\* C20: every candidate an extractor returns has a title that is not empty
\* and has no leading or trailing whitespace; a block whose title is missing
\* or blank yields no candidate.
TitlesTrimmed ==
    extracted # NoExtract =>
        /\ \A i \in 1..Len(extracted.list_div) :
             /\ extracted.list_div[i].title # << >>
             /\ ~IsSpace(Head(extracted.list_div[i].title))
             /\ ~IsSpace(extracted.list_div[i].title[Len(extracted.list_div[i].title)])
        /\ extracted.parser \in BlockParsers =>
             \A k \in 1..Len(source) :
                 FragmentOf(extracted.parser, source[k]) =>
                     Len(FromFragment(extracted.list_div, source[k].name))
                         <= Cardinality({b \in 1..Len(source[k].blocks) :
                               HasTitleText(extracted.parser, source[k].blocks[b])})

\* a file with a padded title, a missing title and a blank title: one
\* candidate for the padded one, trimmed
TitlesTrimmedWitness ==
    /\ extracted # NoExtract
    /\ extracted.parser = Rebornvc
    /\ \E k \in 1..Len(source) :
         /\ FragmentOf(Rebornvc, source[k])
         /\ \E b \in 1..Len(source[k].blocks) :
              ~HasTitleText(Rebornvc, source[k].blocks[b])
    /\ \E i \in 1..Len(extracted.list_div) :
         extracted.list_div[i].title = TitleA \o TitleB

(***************************************************************************)
(* main() of bin/rf.py and the notification functions of                   *)
(* ransomlook/slack.py.  rocketnotifyrf (ransomlook.rocket) and            *)
(* chat_postMessage (slack_sdk) are calls that return or raise.            *)
(***************************************************************************)

\* a configuration section: a dict, here a function from its keys
Token == << "t" >>

Channel == << "C" >>

SlackConfigs ==
    { << >>,
      [enable |-> FALSE, bot_token |-> Token, channel_id |-> Channel],
      [enable |-> TRUE, bot_token |-> Token, channel_id |-> Channel],
      [enable |-> TRUE, channel_id |-> Channel],
      [enable |-> TRUE, bot_token |-> Token, channel_id |-> << >>] }

RocketConfigs == { << >>, [enable |-> FALSE], [enable |-> TRUE] }

\* config.get('enable', False)
Enabled(config) == "enable" \in DOMAIN config /\ config.enable

\* slack.py lines 15-29: no client without a bot_token
get_slack_client(config) ==
    IF "bot_token" \in DOMAIN config /\ config.bot_token # << >>
    THEN [token |-> config.bot_token] ELSE PyNone

\* what chat_postMessage does: returns, raises SlackApiError, raises another
\* exception (no connection)
PostOutcomes == {"sent", "SlackApiError", "Exception"}

\* the checks of a notification function before its try
CanPost(config) ==
    /\ Enabled(config)
    /\ get_slack_client(config) # PyNone
    /\ "channel_id" \in DOMAIN config /\ config.channel_id # << >>

\* slack.py lines 32-103: description[:500] of a description that is no str
\* raises inside the try
slacknotify(config, group, title, description, outcome) ==
    IF ~CanPost(config) THEN FALSE
    ELSE IF description.ty # "str" THEN FALSE
    ELSE outcome = "sent"

\* slack.py lines 174-242
slacknotifyrf(config, datas, outcome) ==
    IF ~CanPost(config) THEN FALSE ELSE outcome = "sent"

\* what rocketnotifyrf does: returns or raises
RocketOutcomes == {"sent", "Exception"}

RfKnownNever(keys, name) == FALSE

\* rf.py lines 30-35: the name of the entry is a key of db 10
RfKnown(keys, name) == \E key \in keys : name = key

\* an exception on its way out of main()
RfRaised(result) == [result EXCEPT !.escaped = TRUE, !.pc = "exit"]

RfRocketCaughtNothing(result, outcome) ==
    IF outcome = "Exception" THEN RfRaised(result) ELSE result

\* rf.py lines 40-43: try: rocketnotifyrf(...) except Exception: dbglog
RfRocketCaught(result, outcome) == result

\* rf.py lines 39-43 for a stored entry
RfRocket(run, name, outcome) ==
    IF Enabled(run.rocketconfig)
    THEN RfRocketCaught([run EXCEPT !.sent = Append(@, [name |-> name,
                                                        via |-> "rocketchat",
                                                        ok |-> outcome = "sent"]),
                                    !.log = Append(@, [op |-> "rocketchat",
                                                       name |-> name])],
                        outcome)
    ELSE run

\* rf.py lines 46-53 for a stored entry
RfSlack(run, name, outcome) ==
    IF run.escaped THEN run
    ELSE IF Enabled(run.slackconfig)
    THEN [run EXCEPT !.sent = Append(@, [name |-> name, via |-> "slack",
                                         ok |-> slacknotifyrf(run.slackconfig,
                                                              [name |-> name],
                                                              outcome)]),
                     !.log = Append(@, [op |-> "slack", name |-> name])]
    ELSE run

\* rf.py line 36: red.set(entry['name'], json.dumps(entry))
RfStored(run, name) ==
    [run EXCEPT !.writes = Append(@, name), !.db = @ \cup {name},
                !.values = Put(@, name, "dump"),
                !.log = Append(@, [op |-> "set", name |-> name])]

\* rf.py line 29: the next entry of temp['dumps']
RfAdvanced(run) ==
    IF run.escaped THEN run ELSE [run EXCEPT !.todo = Tail(@)]

\* the names of the dumps the feed returns
DumpNames == {TitleA, TitleB, TitleC}

\* the most dumps the feed returns
MaxDumps == 2

DumpLists == UNION {[1..n -> DumpNames] : n \in 0..MaxDumps}

\* rf.py lines 12-27: the keys of db 10, the configuration, the dumps
RfStart(keys, rocketconfig, slackconfig, dumps) ==
    [pc |-> "loop", keys |-> keys, db |-> keys, rocketconfig |-> rocketconfig,
     slackconfig |-> slackconfig, dumps |-> dumps, todo |-> dumps,
     writes |-> << >>, sent |-> << >>, escaped |-> FALSE,
     returned |-> << >>, values |-> [k \in keys |-> "stored"], log |-> << >>]

notRf == << red, importVars, runs, parse, source, extracted, norm, cli, bots >>

InitRf ==
    /\ red = << >>
    /\ ImportIdle
    /\ runs = NoRuns
    /\ parse = NoParse(<< >>)
    /\ source = << >>
    /\ extracted = NoExtract
    /\ norm = NoNorm
    /\ cli = NoCli
    /\ BotsIdle
    /\ rf \in {RfStart(keys, rocketconfig, slackconfig, dumps) :
                  keys \in {{}, {TitleA}}, rocketconfig \in RocketConfigs,
                  slackconfig \in SlackConfigs, dumps \in DumpLists}

\* rf.py lines 29-35 for an entry whose name is a key of db 10
RfKnownEntry ==
    /\ rf.pc = "loop"
    /\ rf.todo # << >>
    /\ RfKnown(rf.keys, Head(rf.todo))
    /\ rf' = RfAdvanced(rf)
    /\ UNCHANGED notRf

\* rf.py lines 29-53 for an entry whose name is no key: stored, then
\* announced on RocketChat and on Slack
RfNewEntry ==
    /\ rf.pc = "loop"
    /\ rf.todo # << >>
    /\ ~RfKnown(rf.keys, Head(rf.todo))
    /\ \E rocket \in RocketOutcomes, slack \in PostOutcomes :
         rf' = RfAdvanced(RfSlack(RfRocket(RfStored(rf, Head(rf.todo)),
                                           Head(rf.todo), rocket),
                                  Head(rf.todo), slack))
    /\ UNCHANGED notRf

\* rf.py line 29: no entry is left
RfDone ==
    /\ rf.pc = "loop"
    /\ rf.todo = << >>
    /\ rf' = [rf EXCEPT !.pc = "exit"]
    /\ UNCHANGED notRf

\* slacknotify called for a stored post, with its description or with none
CallSlacknotify ==
    /\ rf.pc = "exit"
    /\ ~rf.escaped
    /\ \E description \in {PyStr(Desc), PyNone}, outcome \in PostOutcomes :
         rf' = [rf EXCEPT !.pc = "notified",
                   !.returned = << [description |-> description,
                                    outcome |-> outcome,
                                    ok |-> slacknotify(rf.slackconfig, GX, TitleA,
                                                       description, outcome)] >>]
    /\ UNCHANGED notRf

NextRf == RfKnownEntry \/ RfNewEntry \/ RfDone \/ CallSlacknotify

SpecRf == InitRf /\ [][NextRf]_vars

\* the names of dumps that are no key, in order
RECURSIVE NewNames(_, _)
NewNames(dumps, keys) ==
    IF dumps = << >> THEN << >>
    ELSE IF Head(dumps) \in keys THEN NewNames(Tail(dumps), keys)
    ELSE << Head(dumps) >> \o NewNames(Tail(dumps), keys)

\* the notifications attempted for that name on that channel
Attempts(sent, name, via) ==
    Cardinality({i \in 1..Len(sent) : sent[i].name = name /\ sent[i].via = via})

\* the entries of dumps with that name
Occurrences(dumps, name) ==
    Cardinality({i \in 1..Len(dumps) : dumps[i] = name})

\* C17: a failed notification never escapes main(), never undoes or repeats
\* the store write of its record and never stops the records after it from
\* being stored and notified; slacknotify returns False when it fails.
NotificationBestEffort ==
    /\ rf # NoRf => ~rf.escaped
    /\ (rf # NoRf /\ rf.pc \in {"exit", "notified"}) =>
         /\ rf.writes = NewNames(rf.dumps, rf.keys)
         /\ \A i \in 1..Len(rf.writes) :
              /\ rf.writes[i] \in rf.db
              /\ Enabled(rf.rocketconfig) =>
                    Attempts(rf.sent, rf.writes[i], "rocketchat")
                        = Occurrences(rf.writes, rf.writes[i])
              /\ Enabled(rf.slackconfig) =>
                    Attempts(rf.sent, rf.writes[i], "slack")
                        = Occurrences(rf.writes, rf.writes[i])
    /\ (rf # NoRf /\ rf.pc = "notified") =>
         (rf.returned[1].ok <=>
             /\ rf.returned[1].outcome = "sent"
             /\ rf.returned[1].description.ty = "str"
             /\ rf.slackconfig
                    = [enable |-> TRUE, bot_token |-> Token, channel_id |-> Channel])

\* two new entries: both notifications of the first fail, the second is
\* stored and announced on both channels
NotificationBestEffortWitness ==
    /\ rf # NoRf
    /\ rf.pc = "exit"
    /\ rf.writes = << TitleB, TitleC >>
    /\ rf.sent = << [name |-> TitleB, via |-> "rocketchat", ok |-> FALSE],
                    [name |-> TitleB, via |-> "slack", ok |-> FALSE],
                    [name |-> TitleC, via |-> "rocketchat", ok |-> TRUE],
                    [name |-> TitleC, via |-> "slack", ok |-> TRUE] >>

(***************************************************************************)
(* The group restriction of bin/parse.py and bin/scrape.py.                *)
(* ransomlook.scraper is a call that receives groups_filter.               *)
(***************************************************************************)

\* str.split(sep) for a separator of one character
RECURSIVE Split(_, _, _)
Split(s, sep, part) ==
    IF s = << >> THEN << part >>
    ELSE IF Head(s) = sep THEN << part >> \o Split(Tail(s), sep, << >>)
    ELSE Split(Tail(s), sep, Append(part, Head(s)))

\* the lines a text file iterates over: each keeps its newline
RECURSIVE FileLines(_, _)
FileLines(text, line) ==
    IF text = << >> THEN (IF line = << >> THEN << >> ELSE << line >>)
    ELSE IF Head(text) = "\n"
         THEN << Append(line, "\n") >> \o FileLines(Tail(text), << >>)
    ELSE FileLines(Tail(text), Append(line, Head(text)))

\* str.splitlines(): the lines without their newlines
RECURSIVE splitlines(_, _)
splitlines(text, line) ==
    IF text = << >> THEN (IF line = << >> THEN << >> ELSE << line >>)
    ELSE IF Head(text) = "\n" THEN << line >> \o splitlines(Tail(text), << >>)
    ELSE splitlines(Tail(text), Append(line, Head(text)))

NamesUnstripped(parts) == {parts[i] : i \in {j \in 1..Len(parts) : Strip(parts[j]) # << >>}}

\* {g.strip() for g in parts if g.strip()}
NamesOf(parts) ==
    {Strip(parts[i]) : i \in {j \in 1..Len(parts) : Strip(parts[j]) # << >>}}

\* parse.py lines 22-23, scrape.py lines 12-13
GroupsFromList(args) ==
    IF Truthy(args.groups) THEN NamesOf(Split(args.groups.s, ",", << >>)) ELSE {}

\* parse.py lines 20-30
parse_load_groups(args) ==
    GroupsFromList(args)
        \cup (IF Truthy(args.file) THEN NamesOf(FileLines(args.file.s, << >>))
              ELSE {})

\* scrape.py lines 10-19
scrape_load_groups(args) ==
    GroupsFromList(args)
        \cup (IF Truthy(args.file) THEN NamesOf(splitlines(args.file.s, << >>))
              ELSE {})

\* a Python set
PySet(elements) == [ty |-> "set", e |-> elements]

\* scrape.py line 29: groups if groups else None
GroupsOrNone(groups) == IF groups # {} THEN PySet(groups) ELSE PyNone

\* parse.py line 42: the parser modules glob finds
KnownParsers ==
    << Blacklock, Datavault, Flocker, Medusalocker, Rebornvc, Silentransomgroup >>

\* parse.py line 44: [name for name in __all__ if name in groups_filter]
RECURSIVE Filtered(_, _)
Filtered(all, groups_filter) ==
    IF all = << >> THEN << >>
    ELSE IF Head(all) \in groups_filter
         THEN << Head(all) >> \o Filtered(Tail(all), groups_filter)
    ELSE Filtered(Tail(all), groups_filter)

\* a group no parser module exists for
Lockbit == << "l", "o", "c", "k", "b", "i", "t" >>

\* what the user writes between the commas of -g, and the group it names
ListEntries ==
    { [text |-> Blacklock, names |-> {Blacklock}],
      [text |-> Padded(Flocker), names |-> {Flocker}],
      [text |-> << >>, names |-> {}],
      [text |-> Blank, names |-> {}],
      [text |-> Lockbit, names |-> {Lockbit}] }

\* what a line of the file of -f holds, and the group it names
LineEntries ==
    { [text |-> Flocker, names |-> {Flocker}],
      [text |-> << "\t" >> \o Datavault \o << " " >>, names |-> {Datavault}],
      [text |-> Blank, names |-> {}] }

\* the most entries of the list, and the most lines of the file
MaxNames == 2

RECURSIVE Joined(_, _)
Joined(entries, sep) ==
    IF entries = << >> THEN << >>
    ELSE IF Len(entries) = 1 THEN entries[1].text
    ELSE entries[1].text \o << sep >> \o Joined(Tail(entries), sep)

RECURSIVE Written(_)
Written(entries) ==
    IF entries = << >> THEN << >>
    ELSE entries[1].text \o << "\n" >> \o Written(Tail(entries))

\* the command lines: -g absent or given, -f absent or naming a readable file
ListArgs == UNION {[1..n -> ListEntries] : n \in 0..MaxNames}

FileArgs == UNION {[1..n -> LineEntries] : n \in 0..MaxNames}

\* parse.py lines 34-37, scrape.py lines 23-26: args as parse_args() returns
\* them; listed and lines keep what the user meant
CliStart(tool, given, listed, filed, lines) ==
    [pc |-> "args", tool |-> tool,
     listed |-> IF given THEN listed ELSE << >>,
     lines |-> IF filed THEN lines ELSE << >>,
     args |-> [groups |-> IF given THEN PyStr(Joined(listed, ",")) ELSE PyNone,
               file |-> IF filed THEN PyStr(Written(lines)) ELSE PyNone],
     groups |-> {}, all |-> << >>, calls |-> << >>]

notCli == << red, importVars, runs, parse, source, extracted, norm, rf, bots >>

InitCli ==
    /\ red = << >>
    /\ ImportIdle
    /\ runs = NoRuns
    /\ parse = NoParse(<< >>)
    /\ source = << >>
    /\ extracted = NoExtract
    /\ norm = NoNorm
    /\ rf = NoRf
    /\ BotsIdle
    /\ cli \in {CliStart(tool, given, listed, filed, lines) :
                   tool \in {"parse", "scrape"}, given \in BOOLEAN,
                   listed \in ListArgs, filed \in BOOLEAN, lines \in FileArgs}

\* parse.py line 39
ParseLoadGroups ==
    /\ cli.pc = "args"
    /\ cli.tool = "parse"
    /\ cli' = [cli EXCEPT !.pc = "loaded", !.groups = parse_load_groups(cli.args)]
    /\ UNCHANGED notCli

\* parse.py lines 41-44: __all__, the modules of the loop of line 46
ParseSelect ==
    /\ cli.pc = "loaded"
    /\ cli.tool = "parse"
    /\ cli' = [cli EXCEPT !.pc = "selected",
                  !.all = IF cli.groups # {}
                          THEN Filtered(KnownParsers, cli.groups)
                          ELSE KnownParsers]
    /\ UNCHANGED notCli

\* scrape.py line 28
ScrapeLoadGroups ==
    /\ cli.pc = "args"
    /\ cli.tool = "scrape"
    /\ cli' = [cli EXCEPT !.pc = "loaded", !.groups = scrape_load_groups(cli.args)]
    /\ UNCHANGED notCli

\* scrape.py lines 29-33: groups_filter and the two calls of scraper
ScrapeCalls ==
    /\ cli.pc = "loaded"
    /\ cli.tool = "scrape"
    /\ cli' = [cli EXCEPT !.pc = "scraped",
                  !.calls = << [kind |-> 0, groups_filter |-> GroupsOrNone(cli.groups)],
                               [kind |-> 3, groups_filter |-> GroupsOrNone(cli.groups)] >>]
    /\ UNCHANGED notCli

NextCli == ParseLoadGroups \/ ParseSelect \/ ScrapeLoadGroups \/ ScrapeCalls

SpecCli == InitCli /\ [][NextCli]_vars

\* the groups the list and the file name
NamedGroups ==
    UNION ({cli.listed[i].names : i \in 1..Len(cli.listed)}
               \cup {cli.lines[i].names : i \in 1..Len(cli.lines)})

\* the elements of a list
Elements(seq) == {seq[i] : i \in 1..Len(seq)}

\* C19: with a list and/or a file that names groups, exactly the known
\* groups named in their union (entries trimmed, blank entries ignored) are
\* processed, each once; with neither, or with no name in them, all known
\* groups are processed.  scrape.py hands scraper that union, or None.
GroupRestriction ==
    /\ cli.pc = "selected" =>
         /\ Elements(cli.all) = IF NamedGroups = {} THEN Elements(KnownParsers)
                                ELSE Elements(KnownParsers) \cap NamedGroups
         /\ \A i, j \in 1..Len(cli.all) : cli.all[i] = cli.all[j] => i = j
    /\ cli.pc = "scraped" =>
         /\ Len(cli.calls) = 2
         /\ cli.calls[1].kind = 0 /\ cli.calls[2].kind = 3
         /\ \A i \in 1..2 :
              cli.calls[i].groups_filter
                  = IF NamedGroups = {} THEN PyNone ELSE PySet(NamedGroups)

\* -g " flocker ," with a file of a padded datavault and a blank line:
\* datavault and flocker are parsed
GroupRestrictionWitness ==
    /\ cli.pc = "selected"
    /\ cli.args.groups = PyStr(Padded(Flocker) \o << "," >>)
    /\ cli.args.file = PyStr(<< "\t" >> \o Datavault \o << " ", "\n" >>
                                \o Blank \o << "\n" >>)
    /\ cli.all = << Datavault, Flocker >>

(***************************************************************************)
(* The order of a committed collection and the instants its discovered     *)
(* strings denote.                                                         *)
(***************************************************************************)

ChronoDates ==
    { << "2", "0", "2", "4", "-", "0", "3", "-", "0", "1" >>,
      << "2", "0", "2", "4", "-", "0", "2", "-", "2", "9" >> }

ChronoTimes ==
    { << "1", "2", ":", "0", "0", ":", "0", "0" >>,
      << "1", "1", ":", "5", "9", ":", "5", "9" >> }

ChronoFracs ==
    { << >>,
      << ".", "1", "2", "3", "4", "5", "6" >>,
      << ".", "0", "0", "0", "0", "0", "0" >> }

\* timestamps every pattern or fromisoformat parses: with and without a
\* fraction, with and without a UTC offset
ChronoStamps ==
    {d \o << "T" >> \o t \o f \o z :
        d \in ChronoDates, t \in ChronoTimes, f \in ChronoFracs, z \in ZoneParts}

\* a store with no post, and one with a post written with a T separator
ChronoStores ==
    { << >>,
      [g \in {GX} |-> << Post(TitleA, D20240102T) >>] }

\* two records of one group, each with a timestamp
ChronoBatches ==
    {<< Record(GX, TitleB, d1), Record(GX, TitleC, d2) >> :
        d1 \in ChronoStamps, d2 \in ChronoStamps}

InitChrono ==
    /\ red \in ChronoStores
    /\ pc = "start"
    /\ remote_posts = << >>
    /\ crashed = FALSE
    /\ prev = red
    /\ rerun = FALSE
    /\ resp = NoResponse
    /\ created = CreatedWith(<< >>, red, TRUE)
    /\ runs = NoRuns
    /\ parse = NoParse(<< >>)
    /\ source = << >>
    /\ extracted = NoExtract
    /\ ToolsIdle
    /\ BotsIdle

\* line 124
FetchChronoBatch ==
    /\ pc = "start"
    /\ remote_posts' \in ChronoBatches
    /\ pc' = "fetched"
    /\ UNCHANGED << red, crashed, prev, rerun, created, resp, notImport >>

NextChrono == FetchChronoBatch \/ MergeAndSave

SpecChrono == InitChrono /\ [][NextChrono]_vars

\* the days from 1900-01-01 to the first of the month
DaysBefore(Y, m) ==
    365 * (Y - 1900) + ((Y - 1) \div 4) - ((Y - 1) \div 100) + ((Y - 1) \div 400)
        + (CASE m = 1 -> 0 [] m = 2 -> 31 [] m = 3 -> 59 [] m = 4 -> 90
             [] m = 5 -> 120 [] m = 6 -> 151 [] m = 7 -> 181 [] m = 8 -> 212
             [] m = 9 -> 243 [] m = 10 -> 273 [] m = 11 -> 304 [] m = 12 -> 334)
        + (IF m > 2 /\ IsLeap(Y) THEN 1 ELSE 0)

\* the minute of the instant a datetime denotes, its offset taken off
MinuteOf(dt) ==
    ((DaysBefore(dt.Y, dt.m) + dt.d) * 24 + dt.H) * 60 + dt.M - dt.tz.min

\* the instant of a is not later than that of b
NotLater(a, b) ==
    \/ MinuteOf(a) < MinuteOf(b)
    \/ MinuteOf(a) = MinuteOf(b) /\ a.S < b.S
    \/ MinuteOf(a) = MinuteOf(b) /\ a.S = b.S /\ a.us <= b.us

\* the discovered string of a stored post
DiscoveredOf(post) == Get(post, "discovered", EmptyStr).s

\* both strings parse, as two naive or as two aware datetimes
Comparable(d1, d2) ==
    /\ Parses(d1) /\ Parses(d2)
    /\ ParsedOf(d1).tz.aware = ParsedOf(d2).tz.aware

\* C21: of two posts of a committed collection whose discovered values the
\* normalizer produced from parseable inputs, the one the string sort places
\* first denotes an instant that is not later than that of the other.
LexicographicIsChronological ==
    pc = "exit" =>
        \A g \in DOMAIN red : \A i, j \in 1..Len(red[g]) :
            (i < j /\ Comparable(DiscoveredOf(red[g][i]), DiscoveredOf(red[g][j])))
                => NotLater(ParsedOf(DiscoveredOf(red[g][i])),
                            ParsedOf(DiscoveredOf(red[g][j])))

\* the same for the values without a UTC offset
NaiveIsChronological ==
    pc = "exit" =>
        \A g \in DOMAIN red : \A i, j \in 1..Len(red[g]) :
            (/\ i < j
             /\ Comparable(DiscoveredOf(red[g][i]), DiscoveredOf(red[g][j]))
             /\ ~ParsedOf(DiscoveredOf(red[g][i])).tz.aware)
                => NotLater(ParsedOf(DiscoveredOf(red[g][i])),
                            ParsedOf(DiscoveredOf(red[g][j])))

(***************************************************************************)
(* tools/import_telegram_groups.py.  teladder (ransomlook.telegram) is a   *)
(* call that stores the channel and returns 1, returns something else, or  *)
(* raises.                                                                 *)
(***************************************************************************)

Https == << "h", "t", "t", "p", "s", ":", "/", "/" >>

TMe == << "t", ".", "m", "e", "/" >>

TMeJoinchat == TMe \o << "j", "o", "i", "n", "c", "h", "a", "t", "/" >>

TMeInvite == TMe \o << "+" >>

\* str.rstrip('/')
RECURSIVE RStripSlash(_)
RStripSlash(s) ==
    IF s # << >> /\ s[Len(s)] = "/" THEN RStripSlash(SubSeq(s, 1, Len(s) - 1))
    ELSE s

\* str.lstrip('/')
RECURSIVE LStripSlash(_)
LStripSlash(s) == IF s # << >> /\ Head(s) = "/" THEN LStripSlash(Tail(s)) ELSE s

\* pat stands at position i of s
Occurs(s, pat, i) ==
    /\ i + Len(pat) - 1 <= Len(s)
    /\ SubSeq(s, i, i + Len(pat) - 1) = pat

\* what follows pat at position i
After(s, pat, i) == SubSeq(s, i + Len(pat), Len(s))

\* [^/]+ at the head of s, greedy
RECURSIVE UntilSlash(_)
UntilSlash(s) ==
    IF s = << >> \/ Head(s) = "/" THEN << >>
    ELSE << Head(s) >> \o UntilSlash(Tail(s))

\* where re.search(pat + '([^/]+)$', s) can match
EndMatches(s, pat) ==
    {i \in 1..Len(s) :
        /\ Occurs(s, pat, i)
        /\ After(s, pat, i) # << >>
        /\ UntilSlash(After(s, pat, i)) = After(s, pat, i)}

\* where re.search(pat + '([^/]+)', s) can match
RunMatches(s, pat) ==
    {i \in 1..Len(s) : Occurs(s, pat, i) /\ UntilSlash(After(s, pat, i)) # << >>}

\* the leftmost match
Leftmost(positions) == CHOOSE i \in positions : \A j \in positions : i <= j

\* s[:n]
Take(s, n) == SubSeq(s, 1, IF Len(s) < n THEN Len(s) ELSE n)

\* str.replace('/', '_')
RECURSIVE SlashesReplaced(_)
SlashesReplaced(s) ==
    IF s = << >> THEN << >>
    ELSE << (IF Head(s) = "/" THEN "_" ELSE Head(s)) >> \o SlashesReplaced(Tail(s))

\* s from its first '/' on
RECURSIVE FromSlash(_)
FromSlash(s) ==
    IF s = << >> \/ Head(s) = "/" THEN s ELSE FromSlash(Tail(s))

\* urlparse(url).path of a URL without query and fragment: what follows the
\* host of scheme://host, or all of a string without a scheme
UrlPath(url) ==
    IF Contains(url, << ":", "/", "/" >>)
    THEN FromSlash(After(url, << ":", "/", "/" >>,
                         Leftmost({i \in 1..Len(url) :
                                      Occurs(url, << ":", "/", "/" >>, i)})))
    ELSE url

\* lines 42-46
NameOfPublic(name) == IF StartsWith(name, << "@" >>) THEN Tail(name) ELSE name

\* lines 61-66
NameFromPath(path) ==
    IF path # << >> THEN Take(SlashesReplaced(path), 50)
    ELSE << "u", "n", "k", "n", "o", "w", "n", "_", "c", "h", "a", "n", "n",
            "e", "l" >>

\* lines 40-66 for a URL without its trailing slashes
NameOfStripped(url) ==
    IF EndMatches(url, TMe) # {}
    THEN NameOfPublic(After(url, TMe, Leftmost(EndMatches(url, TMe))))
    ELSE IF RunMatches(url, TMeJoinchat) # {}
    THEN << "j", "o", "i", "n", "c", "h", "a", "t", "_" >>
             \o Take(UntilSlash(After(url, TMeJoinchat,
                                      Leftmost(RunMatches(url, TMeJoinchat)))), 10)
    ELSE IF RunMatches(url, TMeInvite) # {}
    THEN << "i", "n", "v", "i", "t", "e", "_" >>
             \o Take(UntilSlash(After(url, TMeInvite,
                                      Leftmost(RunMatches(url, TMeInvite)))), 10)
    ELSE NameFromPath(RStripSlash(LStripSlash(UrlPath(url))))

\* lines 27-66
extract_channel_name(url) == NameOfStripped(RStripSlash(url))

\* lines 74-83: the stripped lines that are no comment and hold 't.me'
RECURSIVE UrlsOf(_)
UrlsOf(lines) ==
    IF lines = << >> THEN << >>
    ELSE IF Strip(Head(lines)) = << >> \/ StartsWith(Strip(Head(lines)), << "#" >>)
    THEN UrlsOf(Tail(lines))
    ELSE IF Contains(Strip(Head(lines)), << "t", ".", "m", "e" >>)
    THEN << Strip(Head(lines)) >> \o UrlsOf(Tail(lines))
    ELSE UrlsOf(Tail(lines))

\* lines 69-91 for a file that can be read
read_telegram_urls(text) == UrlsOf(FileLines(text, << >>))

\* what teladder stores for a channel
Channel5(url, meta) == [link |-> url, meta |-> meta]

\* line 148: teladder(channel_name, url)
teladder(run, name, url, outcome) ==
    IF outcome = "added"
    THEN [run EXCEPT !.store = Put(@, name, Channel5(url, "new")),
                     !.calls = Append(@, [name |-> name, url |-> url]),
                     !.imported = @ + 1]
    ELSE [run EXCEPT !.calls = Append(@, [name |-> name, url |-> url]),
                     !.errors = @ + 1]

TgSkipped(run) == [run EXCEPT !.skipped = @ + 1]

\* lines 130-157: the channel exists with the same URL, or with another one
\* and the user is asked, or is added
TgImported(run, name, url, response, outcome) ==
    IF name \in DOMAIN run.store /\ run.store[name].link = url
    THEN TgSkipped(run)
    ELSE IF name \in DOMAIN run.store /\ response = "EOFError"
    THEN [run EXCEPT !.escaped = TRUE, !.pc = "exit"]
    ELSE IF name \in DOMAIN run.store /\ response \notin {"y", "Y"}
    THEN TgSkipped(run)
    ELSE teladder(run, name, url, outcome)

TgPrintedThenImported(run, name, url, response, outcome) ==
    TgImported(run, name, url, response, outcome)

\* lines 123-127: dry_run prints the name and the URL and continues
TgPrinted(run, name, url, response, outcome) ==
    [run EXCEPT !.printed = Append(@, [name |-> name, url |-> url])]

\* lines 119-157 for one URL
TgIteration(run, url, response, outcome) ==
    IF run.dry_run
    THEN TgPrinted(run, extract_channel_name(url), url, response, outcome)
    ELSE TgImported(run, extract_channel_name(url), url, response, outcome)

TgAdvanced(run) == IF run.escaped THEN run ELSE [run EXCEPT !.todo = Tail(@)]

\* the lines of the file of -f
TgLines ==
    { Https \o TMe \o << "c" >>,
      Https \o TMe \o << "c", "/" >>,
      << " " >> \o Https \o TMe \o << "@", "c" >>,
      Https \o TMeJoinchat \o << "K" >>,
      Https \o TMeInvite \o << "K" >>,
      Https \o TMe \o << "a", "/", "b" >>,
      << "#", " ", "t", ".", "m", "e" >>,
      << " " >>,
      << "x", ".", "o", "r", "g", "/", "c" >> }

\* the most lines of the file
MaxLines == 2

TgFiles == UNION {[1..n -> TgLines] : n \in 0..MaxLines}

RECURSIVE TextOf(_)
TextOf(lines) ==
    IF lines = << >> THEN << >>
    ELSE Head(lines) \o << "\n" >> \o TextOf(Tail(lines))

\* db 5 before the call: empty, channel c with the URL of the file, channel c
\* with another URL
TgStores ==
    { << >>,
      [n \in {<< "c" >>} |-> Channel5(Https \o TMe \o << "c" >>, "old")],
      [n \in {<< "c" >>} |-> Channel5(Https \o TMe \o << "c", "/" >>, "old")] }

\* lines 198-211: the arguments of main()
TgStart(text, dry_run, store) ==
    [pc |-> "read", file |-> text, dry_run |-> dry_run, store |-> store,
     before |-> store, urls |-> << >>, todo |-> << >>, calls |-> << >>,
     printed |-> << >>, imported |-> 0, skipped |-> 0, errors |-> 0,
     escaped |-> FALSE]

notTg == << red, importVars, runs, parse, source, extracted, tools, groupdb,
            poller, bot >>

InitTg ==
    /\ red = << >>
    /\ ImportIdle
    /\ runs = NoRuns
    /\ parse = NoParse(<< >>)
    /\ source = << >>
    /\ extracted = NoExtract
    /\ ToolsIdle
    /\ groupdb = NoGroupdb
    /\ poller = NoPoller
    /\ bot = NoBot
    /\ tg \in {TgStart(TextOf(lines), dry_run, store) :
                  lines \in TgFiles, dry_run \in BOOLEAN, store \in TgStores}

\* lines 102-106: no URL in the file ends the call
TgRead ==
    /\ tg.pc = "read"
    /\ tg' = [tg EXCEPT !.urls = read_telegram_urls(tg.file),
                 !.todo = read_telegram_urls(tg.file),
                 !.pc = IF read_telegram_urls(tg.file) = << >> THEN "exit"
                        ELSE "loop"]
    /\ UNCHANGED notTg

\* lines 119-157: one URL
TgUrl ==
    /\ tg.pc = "loop"
    /\ tg.todo # << >>
    /\ \E response \in {"y", "Y", "n", "", "EOFError"},
          outcome \in {"added", "refused", "raises"} :
         tg' = TgAdvanced(TgIteration(tg, Head(tg.todo), response, outcome))
    /\ UNCHANGED notTg

\* lines 159-165
TgDone ==
    /\ tg.pc = "loop"
    /\ tg.todo = << >>
    /\ tg' = [tg EXCEPT !.pc = "exit"]
    /\ UNCHANGED notTg

NextTg == TgRead \/ TgUrl \/ TgDone

SpecTg == InitTg /\ [][NextTg]_vars

\* C22: with dry_run=True import_telegram_groups writes nothing: teladder is
\* never called and the store stays what it was before the call.
DryRunNoChange ==
    (tg # NoTg /\ tg.dry_run) =>
        /\ tg.store = tg.before
        /\ tg.calls = << >>
        /\ tg.imported = 0

\* a dry run over a channel the store holds with another URL and over a new
\* channel has finished
DryRunNoChangeWitness ==
    /\ tg # NoTg
    /\ tg.dry_run
    /\ tg.pc = "exit"
    /\ tg.before = [n \in {<< "c" >>} |-> Channel5(Https \o TMe \o << "c", "/" >>, "old")]
    /\ tg.printed = << [name |-> << "c" >>, url |-> Https \o TMe \o << "c" >>],
                       [name |-> << "j", "o", "i", "n", "c", "h", "a", "t", "_", "K" >>,
                        url |-> Https \o TMeJoinchat \o << "K" >>] >>

(***************************************************************************)
(* add_group of tools/import_new_groups.py and the loop of its main().     *)
(***************************************************************************)

OnionA == << "h", "t", "t", "p", ":", "/", "/", "a" >>

OnionB == << "h", "t", "t", "p", ":", "/", "/", "b" >>

\* the URL of OnionA with a trailing slash
OnionASlash == OnionA \o << "/" >>

\* lines 97-104: the entry of a new group
group_data(url) ==
    [locations |-> << url >>, captcha |-> FALSE, parser |-> TRUE,
     javascript_render |-> FALSE, meta |-> PyNone, profile |-> << >>]

\* what an add_group call gives: the store and the value returned
AddGroupResult(store, returned) == [store |-> store, returned |-> returned]

AddToExistingUnchecked(store, key, existing, locations, url) ==
    AddGroupResult(Put(store, key,
                       [k \in DOMAIN existing \cup {"locations"} |->
                           IF k = "locations" THEN Append(locations, url)
                           ELSE existing[k]]),
                   TRUE)

\* lines 84-94: a URL of the locations is skipped, another one is appended
AddToExisting(store, key, existing, locations, url) ==
    IF \E i \in 1..Len(locations) : locations[i] = url
    THEN AddGroupResult(store, FALSE)
    ELSE AddGroupResult(Put(store, key,
                            [k \in DOMAIN existing \cup {"locations"} |->
                                IF k = "locations" THEN Append(locations, url)
                                ELSE existing[k]]),
                        TRUE)

\* lines 74-108
add_group(store, name, url) ==
    IF name \in DOMAIN store
    THEN AddToExisting(store, name, store[name],
                       Get(store[name], "locations", << >>), url)
    ELSE AddGroupResult(Put(store, name, group_data(url)), TRUE)

\* db 0 before the calls: empty; a group with one URL; a group with two URLs
\* and a group whose entry has no locations
GroupStores ==
    { << >>,
      [n \in {Blacklock} |-> group_data(OnionA)],
      [n \in {Blacklock, Flocker} |->
          IF n = Blacklock
          THEN [group_data(OnionB) EXCEPT !.locations = << OnionB, OnionA >>]
          ELSE [captcha |-> TRUE, meta |-> PyNone]] }

\* the most add_group calls
MaxCalls == 3

notGroupdb == << red, importVars, runs, parse, source, extracted, tools, tg,
                 poller, bot >>

InitGroupdb ==
    /\ red = << >>
    /\ ImportIdle
    /\ runs = NoRuns
    /\ parse = NoParse(<< >>)
    /\ source = << >>
    /\ extracted = NoExtract
    /\ ToolsIdle
    /\ tg = NoTg
    /\ poller = NoPoller
    /\ bot = NoBot
    /\ groupdb \in {[pc |-> "loop", store |-> store, before |-> store,
                     calls |-> << >>, added |-> 0, skipped |-> 0, failed |-> 0] :
                       store \in GroupStores}

\* the call with its result written down
AddGroupCalled(run, name, url, result) ==
    [run EXCEPT !.store = result.store,
                !.calls = Append(@, [name |-> name, url |-> url,
                                     returned |-> result.returned,
                                     from |-> run.store, to |-> result.store]),
                !.added = IF result.returned THEN @ + 1 ELSE @,
                !.skipped = IF result.returned THEN @ ELSE @ + 1]

\* lines 134-141: the connection answers and add_group is called
AddGroup ==
    /\ groupdb.pc = "loop"
    /\ Len(groupdb.calls) + groupdb.failed < MaxCalls
    /\ \E name \in {Blacklock, Flocker}, url \in {OnionA, OnionB, OnionASlash} :
         groupdb' = AddGroupCalled(groupdb, name, url,
                                   add_group(groupdb.store, name, url))
    /\ UNCHANGED notGroupdb

\* lines 134-148: red.ping() raises, the group is counted as failed
AddGroupNoConnection ==
    /\ groupdb.pc = "loop"
    /\ Len(groupdb.calls) + groupdb.failed < MaxCalls
    /\ groupdb' = [groupdb EXCEPT !.failed = @ + 1]
    /\ UNCHANGED notGroupdb

\* lines 150-152
AddGroupSummary ==
    /\ groupdb.pc = "loop"
    /\ groupdb' = [groupdb EXCEPT !.pc = "exit"]
    /\ UNCHANGED notGroupdb

NextGroupdb == AddGroup \/ AddGroupNoConnection \/ AddGroupSummary

SpecGroupdb == InitGroupdb /\ [][NextGroupdb]_vars

\* the locations of a group of a store
LocationsOf(store, name) ==
    IF name \in DOMAIN store THEN Get(store[name], "locations", << >>) ELSE << >>

\* the elements of a occur in b in the order they have in a
RECURSIVE InOrderWithin(_, _)
InOrderWithin(a, b) ==
    IF a = << >> THEN TRUE
    ELSE IF b = << >> THEN FALSE
    ELSE IF Head(a) = Head(b) THEN InOrderWithin(Tail(a), Tail(b))
    ELSE InOrderWithin(a, Tail(b))

\* C25: add_group called twice with the same name and URL leaves the store
\* after the second call as it was after the first and returns False the
\* second time; after any calls no locations list holds a URL twice and each
\* holds, in their order, the URLs it held before.
AddGroupIdempotent ==
    groupdb # NoGroupdb =>
        /\ \A i \in 1..(Len(groupdb.calls) - 1) :
             (/\ groupdb.calls[i].name = groupdb.calls[i + 1].name
              /\ groupdb.calls[i].url = groupdb.calls[i + 1].url)
                 => /\ ~groupdb.calls[i + 1].returned
                    /\ groupdb.calls[i + 1].to = groupdb.calls[i].to
        /\ \A name \in DOMAIN groupdb.store :
             /\ \A i, j \in 1..Len(LocationsOf(groupdb.store, name)) :
                  LocationsOf(groupdb.store, name)[i]
                      = LocationsOf(groupdb.store, name)[j] => i = j
             /\ InOrderWithin(LocationsOf(groupdb.before, name),
                              LocationsOf(groupdb.store, name))
        /\ DOMAIN groupdb.before \subseteq DOMAIN groupdb.store

\* a URL is appended to a group with two URLs, and the same call made again
\* is skipped
AddGroupIdempotentWitness ==
    /\ groupdb # NoGroupdb
    /\ Len(groupdb.calls) = 2
    /\ groupdb.calls[1].name = Blacklock /\ groupdb.calls[1].url = OnionASlash
    /\ groupdb.calls[1].returned
    /\ groupdb.calls[2].name = Blacklock /\ groupdb.calls[2].url = OnionASlash
    /\ LocationsOf(groupdb.store, Blacklock) = << OnionB, OnionA, OnionASlash >>

\* C26: a dump whose name is a key of db 10 when the run starts keeps its
\* stored value and is announced on no channel; a new dump is written before
\* a notification for it is attempted.
NeverOverwrites ==
    rf # NoRf =>
        /\ \A name \in rf.keys :
             /\ rf.values[name] = "stored"
             /\ \A i \in 1..Len(rf.log) : rf.log[i].name # name
        /\ \A i \in 1..Len(rf.log) :
             rf.log[i].op # "set" =>
                \E j \in 1..(i - 1) :
                    /\ rf.log[j].op = "set"
                    /\ rf.log[j].name = rf.log[i].name
                    /\ \A k \in (j + 1)..(i - 1) : rf.log[k].op # "set"

\* the feed returns a dump that is a key and a new one: the new one is
\* written and then announced on both channels, the known one is passed over
NeverOverwritesWitness ==
    /\ rf # NoRf
    /\ rf.pc = "exit"
    /\ rf.keys = {TitleA}
    /\ rf.dumps = << TitleA, TitleB >>
    /\ rf.log = << [op |-> "set", name |-> TitleB],
                   [op |-> "rocketchat", name |-> TitleB],
                   [op |-> "slack", name |-> TitleB] >>

(***************************************************************************)
(* poll_recent of tools/slack_bot.py: one step per turn of its loop, and   *)
(* the posts that appear in /api/recent between two turns.  An entry of    *)
(* the list is a post with the datetime parse_iso gives for its            *)
(* discovered: parse_iso is a function of the string, and the value is     *)
(* worked out once, when the post enters the list.                         *)
(***************************************************************************)

\* date_str.replace("T", " ")
RECURSIVE TReplaced(_)
TReplaced(s) ==
    IF s = << >> THEN << >>
    ELSE << (IF Head(s) = "T" THEN " " ELSE Head(s)) >> \o TReplaced(Tail(s))

\* datetime.min
DatetimeMin == MkDate(1, 1, 1, 0, 0, 0, 0, Naive)

\* lines 185-186: what does not parse is datetime.min
ParsedOrMin(dt) == IF dt.ok THEN dt ELSE DatetimeMin

\* lines 181-186
parse_iso(date_str) == ParsedOrMin(FromIsoFormat(TReplaced(date_str)))

\* line 211: parse_iso(str(post.get("discovered", "")))
Timed(post) ==
    [post |-> post, ts |-> parse_iso(StrOf(Get(post, "discovered", EmptyStr)))]

TsOf(entry) == entry.ts

\* a naive datetime compared with an aware one raises TypeError
Incomparable(a, b) == a.tz.aware # b.tz.aware

NotEarlier(a, b) == NotLater(b, a)

\* line 212: ts > last_seen
Later(a, b) == ~NotLater(a, b)

\* the place of the i-th post in the list sorted newest first: behind the
\* posts with a greater key and behind the earlier posts with the same key
RankNewestFirst(recent, i) ==
    Cardinality({j \in 1..Len(recent) :
                    StrLess(SortKey(recent[i].post), SortKey(recent[j].post))})
        + Cardinality({j \in 1..(i - 1) :
                          SortKey(recent[j].post) = SortKey(recent[i].post)})
        + 1

\* line 207: sorted(recent, key=discovered, reverse=True), stable
NewestFirst(recent) ==
    [k \in 1..Len(recent) |->
        recent[CHOOSE i \in 1..Len(recent) : RankNewestFirst(recent, i) = k]]

\* lines 210-213: the posts whose timestamp is later than last_seen
RECURSIVE NewPosts(_, _)
NewPosts(recent_sorted, last_seen) ==
    IF recent_sorted = << >> THEN << >>
    ELSE IF Later(TsOf(Head(recent_sorted)), last_seen)
    THEN << Head(recent_sorted) >> \o NewPosts(Tail(recent_sorted), last_seen)
    ELSE NewPosts(Tail(recent_sorted), last_seen)

\* line 212 raises for one of the posts
CompareRaises(recent, last_seen) ==
    \E i \in 1..Len(recent) : Incomparable(TsOf(recent[i]), last_seen)

\* line 216: max(parse_iso(...) for p in new_posts)
RECURSIVE MaxTs(_, _)
MaxTs(posts, best) ==
    IF posts = << >> THEN best
    ELSE IF Later(TsOf(Head(posts)), best) THEN MaxTs(Tail(posts), TsOf(Head(posts)))
    ELSE MaxTs(Tail(posts), best)

\* line 230: the posts one message shows
PostLimit == 10

\* n + 1, counted up to 2
UpTo2(n) == IF n < 2 THEN n + 1 ELSE 2

\* lines 217-245: the message of a turn that is not the first
Announced(run, shown, outcome) ==
    [run EXCEPT !.sent = [p \in DOMAIN @ |->
                             IF \E i \in 1..Len(shown) : shown[i].post = p
                             THEN UpTo2(@[p]) ELSE @[p]],
                !.delivered = IF outcome = "sent"
                              THEN @ \cup {shown[i].post : i \in 1..Len(shown)}
                              ELSE @,
                !.first_cycle_message = @ \/ run.cycle = 0,
                !.last = IF outcome = "sent" THEN "posted" ELSE "error",
                !.first_run = IF outcome = "sent" THEN FALSE ELSE @]

\* lines 215-216: last_seen moves to the latest of the new posts
Seen(run, new_posts) ==
    IF new_posts = << >> THEN run
    ELSE [run EXCEPT !.last_seen = MaxTs(new_posts, TsOf(Head(new_posts)))]

\* lines 217-247 for the new posts of a turn, last_seen already moved
Polled(run, new_posts, shown, outcome) ==
    IF new_posts = << >> \/ run.first_run
    THEN [run EXCEPT !.first_run = FALSE, !.last = "quiet"]
    ELSE Announced(run, shown, outcome)

TurnCounted(run) == [run EXCEPT !.cycle = UpTo2(@)]

\* the posts /api/recent can return
PollPosts ==
    { Post(TitleA, D20240101), Post(TitleB, D20240102), Post(TitleC, D20240102T),
      Post(TitleA, Unknown) }

\* lines 198-199 and the configured channel
PollerStart(channel) ==
    [pc |-> "start", channel |-> channel, last_seen |-> DatetimeMin,
     first_run |-> TRUE, recent |-> << >>, late |-> {},
     sent |-> [p \in PollPosts |-> 0], delivered |-> {},
     first_cycle_message |-> FALSE, cycle |-> 0, last |-> "none"]

notPoller == << red, importVars, runs, parse, source, extracted, tools, tg,
                groupdb, bot >>

InitPoller ==
    /\ red = << >>
    /\ ImportIdle
    /\ runs = NoRuns
    /\ parse = NoParse(<< >>)
    /\ source = << >>
    /\ extracted = NoExtract
    /\ ToolsIdle
    /\ tg = NoTg
    /\ groupdb = NoGroupdb
    /\ bot = NoBot
    /\ poller \in {PollerStart(channel) : channel \in {<< >>, Channel}}

\* lines 194-201
PollerEnters ==
    /\ poller.pc = "start"
    /\ poller' = [poller EXCEPT !.pc = IF poller.channel = << >> THEN "returned"
                                       ELSE "loop"]
    /\ UNCHANGED notPoller

\* a post enters the list /api/recent returns
PostAppears ==
    /\ poller.pc = "loop"
    /\ \E p \in PollPosts :
         /\ \A i \in 1..Len(poller.recent) : poller.recent[i].post # p
         /\ poller' = [poller EXCEPT !.recent = Append(@, Timed(p)),
                          !.late = IF poller.first_run THEN @ ELSE @ \cup {p}]
    /\ UNCHANGED notPoller

\* lines 204-250: one turn of the loop with the answer of the API, through
\* the locals recent (sorted), new_posts and the posts of the message
Turn(outcome) ==
    IF CompareRaises(poller.recent, poller.last_seen)
    THEN poller' = TurnCounted([poller EXCEPT !.last = "error"])
    ELSE \E recent \in {NewestFirst(poller.recent)} :
         \E new_posts \in {NewPosts(recent, poller.last_seen)} :
         \E run \in {Seen(poller, new_posts)} :
         \E shown \in {Take(new_posts, PostLimit)} :
            poller' = TurnCounted(Polled(run, new_posts, shown, outcome))

\* a turn in which api_get and chat_postMessage return
PollTurn ==
    /\ poller.pc = "loop"
    /\ Turn("sent")
    /\ UNCHANGED notPoller

\* a turn in which api_get raises or returns None
PollTurnApiFails ==
    /\ poller.pc = "loop"
    /\ poller' = TurnCounted([poller EXCEPT !.last = "error"])
    /\ UNCHANGED notPoller

\* a turn in which chat_postMessage raises
PollTurnSlackFails ==
    /\ poller.pc = "loop"
    /\ Turn("raises")
    /\ UNCHANGED notPoller

NextPoller ==
    PollerEnters \/ PostAppears \/ PollTurn \/ PollTurnApiFails \/ PollTurnSlackFails

SpecPoller == InitPoller /\ [][NextPoller]_vars

\* the loop keeps running, and turns in which nothing fails keep coming
SpecPollerFair == SpecPoller /\ WF_vars(PollTurn)

\* that post has been shown in a message that reached the channel
Delivered(p) == poller # NoPoller /\ p \in poller.delivered

\* that post appeared in the list after the first poll
AppearedLate(p) == poller # NoPoller /\ p \in poller.late

\* C23: once the first poll is done, every post that appears in the list and
\* has not been posted is eventually posted to the channel.
UnseenEventuallyPosted ==
    \A p \in PollPosts : AppearedLate(p) ~> Delivered(p)

\* C28: a post is shown in the message of at most one turn, and the first
\* turn posts nothing.
AnnouncedAtMostOnce ==
    poller # NoPoller =>
        /\ \A p \in PollPosts : poller.sent[p] <= 1
        /\ ~poller.first_cycle_message

\* A was shown in the message of one turn and stayed in the list; B appeared
\* and was shown in the message of a later turn, without A
AnnouncedAtMostOnceWitness ==
    /\ poller # NoPoller
    /\ poller.recent = << Timed(Post(TitleA, D20240101)),
                          Timed(Post(TitleB, D20240102)) >>
    /\ poller.sent[Post(TitleA, D20240101)] = 1
    /\ poller.sent[Post(TitleB, D20240102)] = 1
    /\ poller.delivered = {Post(TitleA, D20240101)}
    /\ poller.last = "error"
(***************************************************************************)
(* /rlook-scrape of tools/slack_bot.py: handle_scrape, the name check and  *)
(* the background task run_scrape_async.                                   *)
(***************************************************************************)

AsciiLetters ==
    { "a", "b", "c", "d", "e", "f", "g", "h", "i", "j", "k", "l", "m", "n", "o",
      "p", "q", "r", "s", "t", "u", "v", "w", "x", "y", "z", "A", "B", "C", "D",
      "E", "F", "G", "H", "I", "J", "K", "L", "M", "N", "O", "P", "Q", "R", "S",
      "T", "U", "V", "W", "X", "Y", "Z" }

\* \w of a str pattern, for the characters of the model
IsWord(c) == c \in AsciiLetters \/ IsDigit(c) \/ c = "_"

\* line 990: the length bound
MaxNameLength == 100

\* line 990: re.match(r'^[\w\s\-]+$', name) and len(name) <= 100
validate_group_name(name) ==
    /\ name # << >>
    /\ \A i \in 1..Len(name) : IsWord(name[i]) \/ IsSpace(name[i]) \/ name[i] = "-"
    /\ Len(name) <= MaxNameLength

\* line 769
RANSOMLOOK_DIR == "/opt/RansomLook"

\* lines 890, 905: the command line of one of the two tools
CommandLine(tool, group_name) ==
    << "cd ", RANSOMLOOK_DIR, " && poetry run ", tool, " -g " >> \o group_name

\* the places where the lines of a text start
LineStarts(cmd) == {1} \cup {i + 1 : i \in {j \in 1..Len(cmd) : cmd[j] = "\n"}}

\* the line of a text that starts at place s
LineFrom(cmd, s) ==
    SubSeq(cmd, s, (CHOOSE e \in s..(Len(cmd) + 1) :
                       /\ e = Len(cmd) + 1 \/ cmd[e] = "\n"
                       /\ \A j \in s..(e - 1) : cmd[j] # "\n") - 1)

\* subprocess.run(..., shell=True): sh runs the text line by line
ShellRuns(cmd) ==
    [k \in 1..Cardinality(LineStarts(cmd)) |->
        LineFrom(cmd, CHOOSE s \in LineStarts(cmd) :
                         Cardinality({t \in LineStarts(cmd) : t < s}) = k - 1)]

\* lines 893-913: scrape, then parse unless scrape raised
ShellOfTask(group_name, scrape, parse_outcome) ==
    ShellRuns(CommandLine("scrape", group_name))
        \o (IF scrape \in {"timeout", "error"} THEN << >>
            ELSE ShellRuns(CommandLine("parse", group_name)))

\* lines 915-984: the message of the task
MessageOfTask(scrape, parse_outcome) ==
    IF scrape = "timeout" \/ (scrape # "error" /\ parse_outcome = "timeout")
    THEN "timed out"
    ELSE IF scrape = "error" \/ parse_outcome = "error" THEN "failed with error"
    ELSE IF scrape = "ok" /\ parse_outcome = "ok" THEN "Success"
    ELSE IF scrape = "ok" THEN "Scrape succeeded, Parse failed"
    ELSE "Failed"

\* lines 884-984
run_scrape_async(run, scrape, parse_outcome) ==
    [run EXCEPT !.pc = "done",
                !.shell = ShellOfTask(run.thread.s, scrape, parse_outcome),
                !.posted = Append(@, MessageOfTask(scrape, parse_outcome))]

\* lines 1045-1050: the warning for a name the API does not list
Warned(groups) == IF groups = "unlisted" THEN << "Warning" >> ELSE << >>

\* lines 1027-1061 for the stripped text of the command
Handled(run, group_name, groups) ==
    IF group_name = << >>
    THEN [run EXCEPT !.pc = "done", !.responses = << "Usage" >>]
    ELSE IF ~validate_group_name(group_name)
    THEN [run EXCEPT !.pc = "done", !.responses = << "Invalid group name" >>]
    ELSE [run EXCEPT !.pc = "task", !.thread = PyStr(group_name),
                     !.responses = Warned(groups) \o << "Starting scrape" >>]

\* lines 1025-1061
handle_scrape(run, text, groups) ==
    Handled([run EXCEPT !.text = text, !.acked = TRUE], Strip(text), groups)

\* the characters a command text is made of
ScrapeChars == { "a", "Z", "7", "_", "-", " ", "\n", ";" }

MaxText == 3

LongName(n) == [i \in 1..n |-> "a"]

\* the texts of the /rlook-scrape command
ScrapeTexts ==
    UNION {[1..n -> ScrapeChars] : n \in 0..MaxText}
        \cup {LongName(MaxNameLength), LongName(MaxNameLength + 1)}

ScrapeStart ==
    [pc |-> "command", text |-> << >>, acked |-> FALSE, responses |-> << >>,
     thread |-> PyNone, shell |-> << >>, posted |-> << >>]

notBot == << red, importVars, runs, parse, source, extracted, tools, tg, groupdb,
             poller >>

InitScrape ==
    /\ red = << >>
    /\ ImportIdle
    /\ runs = NoRuns
    /\ parse = NoParse(<< >>)
    /\ source = << >>
    /\ extracted = NoExtract
    /\ ToolsIdle
    /\ tg = NoTg
    /\ groupdb = NoGroupdb
    /\ poller = NoPoller
    /\ bot = ScrapeStart

\* /rlook-scrape arrives; api_get("groups") lists the name, does not, or raises
HandleScrape ==
    /\ bot.pc = "command"
    /\ \E text \in ScrapeTexts : \E groups \in {"listed", "unlisted", "raises"} :
         bot' = handle_scrape(bot, text, groups)
    /\ UNCHANGED notBot

\* the background thread runs
RunScrapeAsync ==
    /\ bot.pc = "task"
    /\ \E scrape, parse_outcome \in {"ok", "nonzero", "timeout", "error"} :
         bot' = run_scrape_async(bot, scrape, parse_outcome)
    /\ UNCHANGED notBot

NextScrape == HandleScrape \/ RunScrapeAsync

SpecScrape == InitScrape /\ [][NextScrape]_vars

\* alphanumeric characters, dashes and underscores only, at most 100 of them
PlainName(name) ==
    /\ \A i \in 1..Len(name) :
          name[i] \in AsciiLetters \/ IsDigit(name[i]) \/ name[i] \in {"-", "_"}
    /\ Len(name) <= MaxNameLength

\* the handler started a task, or the shell ran something
ScrapeStarted == bot # NoBot /\ (bot.thread # PyNone \/ bot.shell # << >>)

\* C24: a background task is started and shell commands are run only for a
\* group name made solely of alphanumeric characters, dashes and underscores,
\* of length at most 100.
OnlyPlainNamesScraped ==
    ScrapeStarted => PlainName(Strip(bot.text))

\* every line the shell runs is the scrape or the parse command of the tool
OnlyToolCommandsRun ==
    bot # NoBot =>
        \A i \in 1..Len(bot.shell) :
            /\ Len(bot.shell[i]) > 5
            /\ SubSeq(bot.shell[i], 1, 3) = << "cd ", RANSOMLOOK_DIR, " && poetry run " >>

\* a rejected name starts nothing
RejectedStartsNothing ==
    (bot # NoBot /\ bot.pc # "command" /\ ~validate_group_name(Strip(bot.text)))
        => (bot.thread = PyNone /\ bot.shell = << >>)
(***************************************************************************)
(* /rlook-priority-add and /rlook-priority-remove of tools/slack_bot.py.   *)
(* Bolt runs the listener of each command on a thread of its pool, so two  *)
(* handlers run side by side on the one priority-groups file; a step is    *)
(* one opening of the file.                                                *)
(***************************************************************************)

\* lines 823-824, 784-785: the stripped lines that are not blank and do not
\* start with '#'
RECURSIVE GroupsOfLines(_)
GroupsOfLines(lines) ==
    IF lines = << >> THEN << >>
    ELSE IF Strip(Head(lines)) # << >> /\ Head(Head(lines)) # "#"
    THEN << Strip(Head(lines)) >> \o GroupsOfLines(Tail(lines))
    ELSE GroupsOfLines(Tail(lines))

\* lines 861-866: the lines that are kept
RECURSIVE LinesWithout(_, _)
LinesWithout(lines, group_name) ==
    IF lines = << >> THEN << >>
    ELSE IF Strip(Head(lines)) = group_name THEN LinesWithout(Tail(lines), group_name)
    ELSE << Head(lines) >> \o LinesWithout(Tail(lines), group_name)

\* f.writelines(new_lines)
RECURSIVE Concatenated(_)
Concatenated(lines) ==
    IF lines = << >> THEN << >> ELSE Head(lines) \o Concatenated(Tail(lines))

\* the file: whether it exists, and its text
PriorityFile(exists, text) == [exists |-> exists, text |-> text]

\* lines 820-824: the groups cmd_priority_add reads
ExistingGroups(file) ==
    IF file.exists THEN GroupsOfLines(FileLines(file.text, << >>)) ELSE << >>

InList(x, list) == \E i \in 1..Len(list) : list[i] = x

\* a handler that has answered
Answered(handler, reply) == [handler EXCEPT !.pc = "done", !.reply = reply]

\* lines 808-828 of cmd_priority_add, for the text slash_reply has stripped
AddChecked(handler, args, file) ==
    IF args = << >> THEN Answered(handler, "Usage")
    ELSE IF ~validate_group_name(Strip(args)) THEN Answered(handler, "Invalid group name")
    ELSE IF InList(Strip(args), ExistingGroups(file))
    THEN Answered([handler EXCEPT !.listed = TRUE], "already in the priority list")
    ELSE [handler EXCEPT !.pc = "append", !.group_name = Strip(args)]

\* lines 831-832: open(groups_file, 'a') and the write
AppendedTo(file, group_name) ==
    PriorityFile(TRUE, file.text \o group_name \o << "\n" >>)

\* lines 844-869 of cmd_priority_remove
RemoveChecked(handler, args, file) ==
    IF args = << >> THEN Answered(handler, "Usage")
    ELSE IF ~file.exists THEN Answered(handler, "file not found")
    ELSE IF LinesWithout(FileLines(file.text, << >>), Strip(args))
                = FileLines(file.text, << >>)
    THEN Answered(handler, "not found in priority list")
    ELSE [handler EXCEPT !.pc = "write", !.group_name = Strip(args),
             !.new_lines = LinesWithout(FileLines(file.text, << >>), Strip(args))]

\* lines 872-873: open(groups_file, 'w') and writelines
Rewritten(new_lines) == PriorityFile(TRUE, Concatenated(new_lines))

\* the handler threads of the model
MaxHandlers == 2

Handlers == 1..MaxHandlers

\* the commands of a run
MaxCommands == 3

\* the texts of the two commands
PriorityTexts ==
    { << >>, << "a" >>, << "b" >>, << " ", "a", " " >>, << "a", "\n", "b" >>,
      << "#", "a" >> }

\* the files a run starts from: no group name twice
PriorityFiles ==
    { PriorityFile(FALSE, << >>),
      PriorityFile(TRUE, << >>),
      PriorityFile(TRUE, << "a", "\n" >>),
      PriorityFile(TRUE, << "#", " ", "c", "\n", "b", "\n", " ", "a", "\n" >>) }

IdleHandler ==
    [pc |-> "idle", command |-> "none", group_name |-> << >>, new_lines |-> << >>,
     reply |-> "none", listed |-> FALSE, wrote |-> FALSE]

PriorityStart(file) ==
    [pc |-> "priority", file |-> file, handled |-> 0,
     handler |-> [h \in Handlers |-> IdleHandler]]

InitPriority ==
    /\ red = << >>
    /\ ImportIdle
    /\ runs = NoRuns
    /\ parse = NoParse(<< >>)
    /\ source = << >>
    /\ extracted = NoExtract
    /\ ToolsIdle
    /\ tg = NoTg
    /\ groupdb = NoGroupdb
    /\ poller = NoPoller
    /\ bot \in {PriorityStart(file) : file \in PriorityFiles}

IsPriority == bot.pc = "priority"

\* /rlook-priority-add arrives at a thread: slash_reply strips the text and
\* cmd_priority_add runs up to the end of its read of the file
PriorityAddReads(h) ==
    /\ bot.pc = "priority"
    /\ bot.handler[h].pc = "idle"
    /\ bot.handled < MaxCommands
    /\ \E text \in PriorityTexts :
         bot' = [bot EXCEPT !.handled = @ + 1, !.handler[h] =
                    AddChecked([@ EXCEPT !.command = "add"], Strip(text), bot.file)]
    /\ UNCHANGED notBot

\* cmd_priority_add appends and returns
PriorityAddAppends(h) ==
    /\ bot.pc = "priority"
    /\ bot.handler[h].pc = "append"
    /\ bot' = [bot EXCEPT !.file = AppendedTo(@, bot.handler[h].group_name),
                          !.handler[h] = Answered([@ EXCEPT !.wrote = TRUE], "Added")]
    /\ UNCHANGED notBot

\* /rlook-priority-remove arrives at a thread and runs up to the end of its
\* read of the file
PriorityRemoveReads(h) ==
    /\ bot.pc = "priority"
    /\ bot.handler[h].pc = "idle"
    /\ bot.handled < MaxCommands
    /\ \E text \in PriorityTexts :
         bot' = [bot EXCEPT !.handled = @ + 1, !.handler[h] =
                    RemoveChecked([@ EXCEPT !.command = "remove"], Strip(text), bot.file)]
    /\ UNCHANGED notBot

\* cmd_priority_remove writes the kept lines back and returns
PriorityRemoveWrites(h) ==
    /\ bot.pc = "priority"
    /\ bot.handler[h].pc = "write"
    /\ bot' = [bot EXCEPT !.file = Rewritten(bot.handler[h].new_lines),
                          !.handler[h] = Answered([@ EXCEPT !.wrote = TRUE], "Removed")]
    /\ UNCHANGED notBot

\* a thread is free for the next command
HandlerReturns(h) ==
    /\ bot.pc = "priority"
    /\ bot.handler[h].pc = "done"
    /\ bot' = [bot EXCEPT !.handler[h] = IdleHandler]
    /\ UNCHANGED notBot

NextPriority ==
    \E h \in Handlers :
        \/ PriorityAddReads(h)
        \/ PriorityAddAppends(h)
        \/ PriorityRemoveReads(h)
        \/ PriorityRemoveWrites(h)
        \/ HandlerReturns(h)

SpecPriority == InitPriority /\ [][NextPriority]_vars

\* no group name is listed twice in the file
NoNameTwice ==
    IsPriority =>
        \A i, j \in 1..Len(ExistingGroups(bot.file)) :
            ExistingGroups(bot.file)[i] = ExistingGroups(bot.file)[j] => i = j

\* a handler that found its name listed has written nothing
ListedAddWritesNothing ==
    IsPriority =>
        \A h \in Handlers : bot.handler[h].listed => ~bot.handler[h].wrote

\* C27: from a file without duplicates, after any interleaving of the add and
\* remove commands no group name is in the file twice, and adding a listed
\* name does not write.
PriorityListHasNoDuplicates == NoNameTwice /\ ListedAddWritesNothing
(***************************************************************************)
(* fetch_remote_posts with its HTTP exchange: the request fails, or the    *)
(* API answers with a status and a body.                                   *)
(***************************************************************************)

\* requests.get raised (connection refused, timeout)
TransportError == [kind |-> "error"]

HttpResponse(status, body) == [kind |-> "http", status |-> status, body |-> body]

\* a body that is JSON, and one that is not
JsonBody(value) == [json |-> TRUE, value |-> value]

NotJson == [json |-> FALSE]

\* line 70: resp.raise_for_status() raises for 4xx and 5xx
RaiseForStatusRaises(response) == response.status \in 400..599

\* lines 67-71 without line 70
FetchUnchecked(response) ==
    IF response.kind = "error" \/ ~response.body.json
    THEN [raised |-> TRUE, posts |-> << >>]
    ELSE [raised |-> FALSE, posts |-> response.body.value]

\* lines 67-71
fetch_remote_posts(response) ==
    IF response.kind = "error" THEN [raised |-> TRUE, posts |-> << >>]
    ELSE IF RaiseForStatusRaises(response) THEN [raised |-> TRUE, posts |-> << >>]
    ELSE IF ~response.body.json THEN [raised |-> TRUE, posts |-> << >>]
    ELSE [raised |-> FALSE, posts |-> response.body.value]

\* what the API may send
FetchBodies ==
    { NotJson,
      JsonBody(<< >>),
      JsonBody(<< Record(GX, TitleB, D20240102) >>),
      JsonBody(<< Record(GY, TitleC, Unknown), Record(GX, TitleA, D20240103) >>),
      JsonBody(<< PyStr(Junk) >>) }

HttpStatuses == {200, 404, 500}

Responses ==
    {TransportError}
        \cup {HttpResponse(status, body) : status \in HttpStatuses, body \in FetchBodies}

InitFetch ==
    /\ red \in InitStores
    /\ pc = "start"
    /\ remote_posts = << >>
    /\ crashed = FALSE
    /\ prev = red
    /\ rerun = FALSE
    /\ resp = NoResponse
    /\ created = CreatedWith(<< >>, red, TRUE)
    /\ runs = NoRuns
    /\ parse = NoParse(<< >>)
    /\ source = << >>
    /\ extracted = NoExtract
    /\ ToolsIdle
    /\ BotsIdle

\* line 124: fetch_remote_posts returns the posts; main() goes on
FetchReturns ==
    /\ pc = "start"
    /\ \E response \in Responses :
         /\ ~fetch_remote_posts(response).raised
         /\ resp' = response
         /\ remote_posts' = fetch_remote_posts(response).posts
    /\ pc' = "fetched"
    /\ UNCHANGED << red, crashed, prev, rerun, created, notImport >>

\* line 124: fetch_remote_posts raises, and main() ends with the exception
FetchRaises ==
    /\ pc = "start"
    /\ \E response \in Responses :
         /\ fetch_remote_posts(response).raised
         /\ resp' = response
    /\ pc' = "failed"
    /\ crashed' = TRUE
    /\ UNCHANGED << red, remote_posts, prev, rerun, created, notImport >>

\* the next scheduled run, after a run that ended either way
NextFetchRun ==
    /\ pc \in {"exit", "failed"}
    /\ pc' = "start"
    /\ remote_posts' = << >>
    /\ crashed' = FALSE
    /\ prev' = red
    /\ resp' = NoResponse
    /\ UNCHANGED << red, rerun, created, notImport >>

NextFetch == FetchReturns \/ FetchRaises \/ MergeAndSave \/ NextFetchRun

SpecFetch == InitFetch /\ [][NextFetch]_vars

\* the request failed in transport, or the status is not a success
FetchFailed(response) ==
    \/ response.kind = "error"
    \/ response.kind = "http" /\ response.status \notin 200..299

GroupsOfBatch(incoming) ==
    {Get(incoming[k].d, "group_name", PyNone).s :
        k \in {i \in 1..Len(incoming) :
                  /\ IsDict(incoming[i])
                  /\ Get(incoming[i].d, "group_name", PyNone).ty = "str"}}

\* the ways of pairing n posts with n posts
Pairings(n) == {f \in [1..n -> 1..n] : \A i, j \in 1..n : i # j => f[i] # f[j]}

\* after is before with every post kept as it was but for the format of its
\* discovered, in some order
SamePosts(before, after) ==
    /\ Len(after) = Len(before)
    /\ \E f \in Pairings(Len(before)) :
          \A i \in 1..Len(before) :
              /\ SameButDiscovered(before[i], after[f[i]])
              /\ after[f[i]].discovered.s
                    = normalize_date(StrOf(Get(before[i], "discovered", EmptyStr)))

\* the post was in the group before the run
HeldBefore(g, post) ==
    /\ g \in DOMAIN prev
    /\ \E i \in 1..Len(prev[g]) : SameButDiscovered(prev[g][i], post)

\* the post was built from a record of the batch that names the group
BuiltFor(g, post) ==
    \E k \in 1..Len(remote_posts) :
        /\ IsDict(remote_posts[k])
        /\ Get(remote_posts[k].d, "group_name", PyNone) = PyStr(g)
        /\ post = NewPost(remote_posts[k].d)

\* C30: a committed run leaves every group the batch does not name with the
\* posts it had (titles, descriptions, links and count; the format of
\* discovered and the order may differ), and every post of a group after the
\* run was there before or was built from a record naming that group.
UnnamedGroupsKeepPosts ==
    Committed =>
        /\ \A g \in DOMAIN prev \ GroupsOfBatch(remote_posts) :
              g \in DOMAIN red /\ SamePosts(prev[g], red[g])
        /\ \A g \in DOMAIN red : \A j \in 1..Len(red[g]) :
              HeldBefore(g, red[g][j]) \/ BuiltFor(g, red[g][j])

\* the batch names GX alone and adds a post to it; GY, which it does not
\* name, comes out rewritten and reordered
UnnamedGroupsKeepPostsWitness ==
    /\ Committed
    /\ GroupsOfBatch(remote_posts) = {GX}
    /\ GX \in DOMAIN prev /\ GY \in DOMAIN prev
    /\ Len(red[GX]) > Len(prev[GX])
    /\ Len(prev[GY]) = 2
    /\ red[GY] # prev[GY]
    /\ red[GY][1].post_title = prev[GY][2].post_title

====
